---- MODULE Spec2Model ----
(***************************************************************************)
(* Label Creator: the label content formatting engine of src/app.js        *)
(* (LabelManager) and the HTTP handlers of src/api/index.js.               *)
(*                                                                         *)
(* A JavaScript string is a sequence of one-character strings, so that     *)
(* trimming, splitting, joining, escaping and case conversion are computed *)
(* character by character as the code computes them.                       *)
(***************************************************************************)
EXTENDS Integers, Sequences, FiniteSets, TLC

VARIABLES
    op,        \* harness: the library function that was applied ("idle" before)
    input,     \* harness: the argument the function is applied to
    output,    \* harness: the value the function returned
    \* ---- the client, a LabelManager (src/app.js) ----
    labels,              \* this.labels
    presets,             \* this.presets
    businessInfo,        \* this.businessInfo
    editingLabelId,      \* this.editingLabelId, <<>> for null
    editingPresetId,     \* this.editingPresetId, <<>> for null
    lastCreatedLabelId,  \* this.lastCreatedLabelId, <<>> for null
    creationMode,        \* this.creationMode.value, the mode select of the form
    presetCheckboxes,    \* the checkboxes rendered into this.presetCheckboxes
    loadState,           \* where loadInitialData stands
    presetSearchQuery,              \* this.presetSearchQuery
    presetSearchResults,            \* this.presetSearchResults
    searchDebounceTimer,            \* this.searchDebounceTimer, 0 for null
    ingredientSelectSearchQuery,    \* this.ingredientSelectSearchQuery
    ingredientSelectSearchResults,  \* this.ingredientSelectSearchResults
    ingredientSelectDebounceTimer,  \* this.ingredientSelectDebounceTimer
    timers,              \* the timeouts of the page that are set and not yet due
    \* ---- the server (src/api/index.js) ----
    dbLabels,            \* the collection "labels"
    dbPresets,           \* the collection "presets"
    dbBusiness,          \* the collection "business"
    nextOid,             \* how many identifiers the store has generated
    \* ---- HTTP ----
    net,                 \* the calls of apiRequest in flight, oldest first
    calls                \* how many calls followed those of loadInitialData

fnVars == <<op, input, output>>

clientVars == <<labels, presets, businessInfo, editingLabelId, editingPresetId,
                lastCreatedLabelId, creationMode, presetCheckboxes, loadState>>

searchVars == <<presetSearchQuery, presetSearchResults, searchDebounceTimer,
                ingredientSelectSearchQuery, ingredientSelectSearchResults,
                ingredientSelectDebounceTimer, timers>>

serverVars == <<dbLabels, dbPresets, dbBusiness, nextOid>>

sysVars == <<clientVars, searchVars, serverVars, net, calls>>

vars == <<fnVars, sysVars>>

(***************************************************************************)
(* Bounds of the model.                                                    *)
(***************************************************************************)
MaxLen == 5          \* longest generated ingredient expression
MaxBoxes == 3        \* most preset checkboxes rendered in the form
MaxAddLen == 3       \* longest generated "additional ingredients" text
MaxIdLen == 25       \* longest generated identifier
MaxQueryLen == 3     \* longest generated search query
MaxCalls == 2        \* most calls of the API that follow the initial load
MaxTimers == 3       \* most timeouts the page has handles for at a time

(***************************************************************************)
(* Strings.                                                                *)
(***************************************************************************)
LowerChars == <<"a","b","c","d","e","f","g","h","i","j","k","l","m",
                "n","o","p","q","r","s","t","u","v","w","x","y","z">>
UpperChars == <<"A","B","C","D","E","F","G","H","I","J","K","L","M",
                "N","O","P","Q","R","S","T","U","V","W","X","Y","Z">>

\* String.prototype.toLowerCase, one character
toLowerChar(c) ==
    IF \E i \in 1..Len(UpperChars) : UpperChars[i] = c
    THEN LowerChars[CHOOSE i \in 1..Len(UpperChars) : UpperChars[i] = c]
    ELSE c

\* String.prototype.toUpperCase, one character
toUpperChar(c) ==
    IF \E i \in 1..Len(LowerChars) : LowerChars[i] = c
    THEN UpperChars[CHOOSE i \in 1..Len(LowerChars) : LowerChars[i] = c]
    ELSE c

toLowerCase(s) == [i \in 1..Len(s) |-> toLowerChar(s[i])]
toUpperCase(s) == [i \in 1..Len(s) |-> toUpperChar(s[i])]

\* the characters the regular expression \s and String.prototype.trim strip
IsSpace(c) == c \in {" ", "\t", "\n"}

\* String.prototype.trim
trim(s) ==
    IF \A i \in 1..Len(s) : IsSpace(s[i]) THEN <<>>
    ELSE LET first == CHOOSE i \in 1..Len(s) :
                          /\ ~IsSpace(s[i])
                          /\ \A j \in 1..(i-1) : IsSpace(s[j])
             last  == CHOOSE i \in 1..Len(s) :
                          /\ ~IsSpace(s[i])
                          /\ \A j \in (i+1)..Len(s) : IsSpace(s[j])
         IN SubSeq(s, first, last)

\* String.prototype.indexOf for a single character, 0-based, -1 when absent
indexOf(s, c) ==
    IF \E i \in 1..Len(s) : s[i] = c
    THEN (CHOOSE i \in 1..Len(s) : s[i] = c /\ \A j \in 1..(i-1) : s[j] # c) - 1
    ELSE -1

IsNonEmpty(s) == s # <<>>

HasChar(s, c) == \E i \in 1..Len(s) : s[i] = c

\* Array.prototype.join
RECURSIVE join(_, _)
join(parts, sep) ==
    IF Len(parts) = 0 THEN <<>>
    ELSE IF Len(parts) = 1 THEN parts[1]
    ELSE parts[1] \o sep \o join(Tail(parts), sep)

CommaSpace == <<",", " ">>

\* String.prototype.split(","): the pieces between the commas, empty ones kept
RECURSIVE splitComma(_)
splitComma(s) ==
    LET k == indexOf(s, ",")
    IN IF k = -1 THEN <<s>>
       ELSE <<SubSeq(s, 1, k)>> \o splitComma(SubSeq(s, k + 2, Len(s)))

\* text.replace(/\s+/g, " "): every run of whitespace becomes one space
RECURSIVE collapseWhitespace(_)
collapseWhitespace(s) ==
    IF s = <<>> THEN <<>>
    ELSE IF IsSpace(s[1])
         THEN IF Len(s) > 1 /\ IsSpace(s[2])
              THEN collapseWhitespace(Tail(s))
              ELSE <<" ">> \o collapseWhitespace(Tail(s))
         ELSE <<s[1]>> \o collapseWhitespace(Tail(s))

(***************************************************************************)
(* escapeHtml: the serialisation of a text node (div.textContent = text;   *)
(* div.innerHTML).                                                         *)
(***************************************************************************)
escapeHtmlChar(c) ==
    IF c = "&" THEN <<"&","a","m","p",";">>
    ELSE IF c = "<" THEN <<"&","l","t",";">>
    ELSE IF c = ">" THEN <<"&","g","t",";">>
    ELSE <<c>>

\* an escapeHtml that returns its argument as it is
escapeHtmlNothing(text) == text

RECURSIVE escapeHtml(_)
escapeHtml(text) ==
    IF text = <<>> THEN <<>>
    ELSE escapeHtmlChar(text[1]) \o escapeHtml(Tail(text))

(***************************************************************************)
(* formatIngredientsWithBoldPresetNames: the tokenizer (splitTopLevel) and *)
(* the emphasis of the preset names.  Markup that the code's template      *)
(* literals contribute is a multi-character token ("<strong>"), so that it *)
(* is distinct from the characters "<" and ">" that come from a label.     *)
(***************************************************************************)
\* the for loop of the tokenizer from character i on
RECURSIVE splitLoop(_, _, _, _, _)
splitLoop(text, i, parts, current, parenDepth) ==
    IF i > Len(text)
    THEN [parts |-> parts, current |-> current, parenDepth |-> parenDepth]
    ELSE LET char == text[i]
             d1 == IF char = "(" THEN parenDepth + 1 ELSE parenDepth
             d2 == IF char = ")" THEN d1 - 1 ELSE d1
         IN IF char = "," /\ d2 = 0
            THEN splitLoop(text, i + 1, Append(parts, trim(current)), <<>>, d2)
            ELSE splitLoop(text, i + 1, parts, Append(current, char), d2)

\* a tokenizer that takes every comma for a separator, whatever the depth
splitTopLevelAnyComma(text) ==
    LET pieces == splitComma(text)
        trimmed == [i \in 1..Len(pieces) |-> trim(pieces[i])]
    IN IF trimmed[Len(trimmed)] = <<>>
       THEN SubSeq(trimmed, 1, Len(trimmed) - 1)
       ELSE trimmed

\* a tokenizer that gives up the last item when a group is left open
splitTopLevelDropUnclosed(text) ==
    LET r == splitLoop(text, 1, <<>>, <<>>, 0)
    IN IF trim(r.current) # <<>> /\ r.parenDepth = 0
       THEN Append(r.parts, trim(r.current))
       ELSE r.parts

\* the list `parts` after the loop and the push of the last item
splitTopLevel(text) ==
    LET r == splitLoop(text, 1, <<>>, <<>>, 0)
    IN IF trim(r.current) # <<>> THEN Append(r.parts, trim(r.current))
       ELSE r.parts

\* a formatter that emphasizes the whole item, parenthetical part included
formatPartWholeItem(part) ==
    <<"<strong>">> \o escapeHtml(part) \o <<"</strong>">>

\* the callback of parts.map: one formatted item
formatPart(part) ==
    LET parenIndex == indexOf(part, "(")
    IN IF parenIndex > 0
       THEN LET name == trim(SubSeq(part, 1, parenIndex))
                rest == SubSeq(part, parenIndex + 1, Len(part))
            IN <<"<strong>">> \o escapeHtml(name) \o <<"</strong>", " ">> \o rest
       ELSE <<"<strong>">> \o escapeHtml(part) \o <<"</strong>">>

formatIngredientsWithBoldPresetNames(text) ==
    IF text = <<>> THEN <<>>
    ELSE LET parts == splitTopLevel(text)
         IN join([i \in 1..Len(parts) |-> formatPart(parts[i])], CommaSpace)

(***************************************************************************)
(* The renderer: buildFormattedLabelHtml (rich markup), buildFullLabelText *)
(* (plain text) and stripBracketsFromIngredients (storage text).  A label  *)
(* is a record of strings, allergens a list of strings; a field the record *)
(* lacks in the code is the empty string here, both being falsy.  Each     *)
(* element the template opens is one token that names its section; its     *)
(* style attributes carry no label data and are left out.                  *)
(***************************************************************************)
\* stripBracketsFromIngredients: whitespace runs collapsed, ends trimmed
\* the whitespace collapsed but the ends not trimmed
stripBracketsFromIngredientsNoTrim(text) ==
    IF text = <<>> THEN <<>> ELSE collapseWhitespace(text)

stripBracketsFromIngredients(text) ==
    IF text = <<>> THEN <<>> ELSE trim(collapseWhitespace(text))

IngredientsLabel == <<"I","n","g","r","e","d","i","e","n","t","s",":">>
ContainsLabel == <<"C","O","N","T","A","I","N","S",":"," ">>
NetWtLabel == <<"N","e","t"," ","W","t","."," ">>
DefaultUnit == <<"o","z">>
CottageSentence ==
    <<"MADE IN A COTTAGE FOOD OPERATION THAT IS NOT SUBJECT TO GOVERNMENT FOOD SAFETY INSPECTION">>

\* [city, state, zip].filter((p) => p).join(", ")
cityStateZip(label) ==
    join(SelectSeq(<<label.businessCity, label.businessState, label.businessZip>>,
                   IsNonEmpty),
         CommaSpace)

\* the address line of the rich markup
htmlAddressStr(label) ==
    label.businessName
        \o (IF label.businessAddress # <<>>
            THEN <<" ">> \o label.businessAddress ELSE <<>>)
        \o (IF cityStateZip(label) # <<>>
            THEN CommaSpace \o cityStateZip(label) ELSE <<>>)

buildFormattedLabelHtml(label) ==
    LET cleanIngredients ==
            stripBracketsFromIngredients(
                IF label.text # <<>> THEN label.text ELSE label.ingredientsText)
        productNameHtml ==
            IF label.name # <<>>
            THEN <<"<div:name>">> \o escapeHtml(label.name) \o <<"</div>">>
            ELSE <<>>
        ingredientsHtml ==
            IF cleanIngredients # <<>>
            THEN <<"<div:ingredients>", "<span>">> \o IngredientsLabel
                     \o <<"</span>", " ">>
                     \o formatIngredientsWithBoldPresetNames(cleanIngredients)
                     \o <<"</div>">>
            ELSE <<>>
        allergenHtml ==
            IF Len(label.allergens) > 0
            THEN <<"<div:allergens>">> \o ContainsLabel
                     \o escapeHtml(toUpperCase(join(label.allergens, CommaSpace)))
                     \o <<"</div>">>
            ELSE <<>>
        businessInfoHtml ==
            IF label.businessName # <<>>
            THEN <<"<div:business>">> \o escapeHtml(htmlAddressStr(label))
                     \o <<"</div>">>
            ELSE <<>>
        netQuantityHtml ==
            IF label.netQuantity # <<>>
            THEN <<"<div:net>">> \o NetWtLabel \o escapeHtml(label.netQuantity)
                     \o <<" ">>
                     \o escapeHtml(IF label.netQuantityUnit # <<>>
                                   THEN label.netQuantityUnit ELSE DefaultUnit)
                     \o <<"</div>">>
            ELSE <<>>
        cottageHtml ==
            IF label.includeCottageDisclaimer
            THEN <<"<div:cottage>">> \o CottageSentence \o <<"</div>">>
            ELSE <<>>
    IN <<"<div:label>">> \o productNameHtml \o ingredientsHtml \o allergenHtml
           \o businessInfoHtml \o netQuantityHtml \o cottageHtml \o <<"</div>">>

\* the lines in the layout of the label card, the net quantity next to the
\* name
fullLabelLinesCardLayout(label) ==
    LET cleanIngredients == stripBracketsFromIngredients(label.text)
    IN (IF label.name # <<>> THEN <<label.name>> ELSE <<>>)
       \o (IF label.netQuantity # <<>>
           THEN <<NetWtLabel \o label.netQuantity \o <<" ">>
                    \o (IF label.netQuantityUnit # <<>>
                        THEN label.netQuantityUnit ELSE DefaultUnit)>>
           ELSE <<>>)
       \o (IF cleanIngredients # <<>>
           THEN <<IngredientsLabel \o <<" ">> \o cleanIngredients>> ELSE <<>>)
       \o (IF Len(label.allergens) > 0
           THEN <<ContainsLabel \o join(label.allergens, CommaSpace)>>
           ELSE <<>>)
       \o (IF label.businessName # <<>> THEN <<label.businessName>> ELSE <<>>)
       \o (IF label.includeCottageDisclaimer
           THEN <<CottageSentence>> ELSE <<>>)

\* buildFullLabelText: the list `lines` before the join
fullLabelLines(label) ==
    LET cleanIngredients == stripBracketsFromIngredients(label.text)
        allergenText ==
            join(label.allergens, CommaSpace)
                \o (IF label.allergenDetails # <<>>
                    THEN <<" ", "(">> \o label.allergenDetails \o <<")">>
                    ELSE <<>>)
        addressParts ==
            join(SelectSeq(<<label.businessName, label.businessAddress,
                             label.businessCity, label.businessState,
                             label.businessZip, label.businessPhone>>,
                           IsNonEmpty),
                 CommaSpace)
    IN (IF label.name # <<>> THEN <<label.name>> ELSE <<>>)
       \o (IF cleanIngredients # <<>>
           THEN <<IngredientsLabel \o <<" ">> \o cleanIngredients>> ELSE <<>>)
       \o (IF Len(label.allergens) > 0
           THEN <<ContainsLabel \o allergenText>> ELSE <<>>)
       \o (IF label.businessName # <<>> /\ addressParts # <<>>
           THEN <<addressParts>> ELSE <<>>)
       \o (IF label.netQuantity # <<>>
           THEN <<NetWtLabel \o label.netQuantity \o <<" ">>
                    \o (IF label.netQuantityUnit # <<>>
                        THEN label.netQuantityUnit ELSE DefaultUnit)>>
           ELSE <<>>)
       \o (IF label.includeCottageDisclaimer
           THEN <<CottageSentence>> ELSE <<>>)

buildFullLabelText(label) == join(fullLabelLines(label), <<"\n">>)

(***************************************************************************)
(* The ingredient aggregator of the label form: the checked preset         *)
(* checkboxes in document order, the presets they name and the text of the *)
(* "additional ingredients" field.  boxes is the list of the               *)
(* rendered checkboxes, each [value |-> preset id, checked |-> BOOLEAN].   *)
(***************************************************************************)
\* getSelectedPresets: the values of the checked checkboxes, document order
RECURSIVE getSelectedPresets(_)
getSelectedPresets(boxes) ==
    IF boxes = <<>> THEN <<>>
    ELSE (IF boxes[1].checked
          THEN <<boxes[1].value>> ELSE <<>>)
             \o getSelectedPresets(Tail(boxes))

\* some preset of the list has this id
hasPreset(presetList, id) == \E i \in 1..Len(presetList) : presetList[i].id = id

\* getPresetById: the first preset with this id (Array.prototype.find)
getPresetById(presetList, id) ==
    presetList[CHOOSE i \in 1..Len(presetList) :
                  /\ presetList[i].id = id
                  /\ \A j \in 1..(i-1) : presetList[j].id # id]

\* parseIngredients keeping the empty tokens
parseIngredientsKeepEmpty(text) ==
    IF text = <<>> \/ trim(text) = <<>> THEN <<>>
    ELSE LET pieces == splitComma(text)
         IN [i \in 1..Len(pieces) |-> trim(pieces[i])]

\* parseIngredients: the trimmed non-empty comma-separated tokens
parseIngredients(text) ==
    IF text = <<>> \/ trim(text) = <<>> THEN <<>>
    ELSE LET pieces == splitComma(text)
             trimmed == [i \in 1..Len(pieces) |-> trim(pieces[i])]
         IN SelectSeq(trimmed, IsNonEmpty)

\* a forEach that lists the preset name in front of its sub-ingredients
RECURSIVE collectFromPresetsWithNames(_, _)
collectFromPresetsWithNames(presetList, ids) ==
    IF ids = <<>> THEN <<>>
    ELSE (IF hasPreset(presetList, ids[1])
          THEN LET preset == getPresetById(presetList, ids[1])
               IN <<preset.name>> \o preset.ingredients
          ELSE <<>>)
             \o collectFromPresetsWithNames(presetList, Tail(ids))

\* the forEach of collectAllIngredients over the selected ids
RECURSIVE collectFromPresets(_, _)
collectFromPresets(presetList, ids) ==
    IF ids = <<>> THEN <<>>
    ELSE (IF hasPreset(presetList, ids[1])
          THEN LET preset == getPresetById(presetList, ids[1])
               IN IF Len(preset.ingredients) > 0
                  THEN preset.ingredients
                  ELSE <<preset.name>>
          ELSE <<>>)
             \o collectFromPresets(presetList, Tail(ids))

\* collectAllIngredients: the flattened ingredient list
collectAllIngredients(presetList, boxes, additionalIngredients) ==
    LET fromPresets ==
            collectFromPresets(presetList, getSelectedPresets(boxes))
        additionalText == trim(additionalIngredients)
    IN IF additionalText # <<>>
       THEN fromPresets \o parseIngredients(additionalText)
       ELSE fromPresets

\* the forEach of buildFormattedLabelText over the selected ids
RECURSIVE formatFromPresets(_, _)
formatFromPresets(presetList, ids) ==
    IF ids = <<>> THEN <<>>
    ELSE (IF hasPreset(presetList, ids[1])
          THEN LET preset == getPresetById(presetList, ids[1])
               IN IF Len(preset.ingredients) > 0
                  THEN <<preset.name \o <<" ", "(">>
                           \o join(preset.ingredients, CommaSpace) \o <<")">>>>
                  ELSE <<preset.name>>
          ELSE <<>>)
             \o formatFromPresets(presetList, Tail(ids))

\* buildFormattedLabelText that puts the additional ingredients first
buildFormattedLabelTextAdditionalFirst(presetList, boxes, additionalIngredients) ==
    join(parseIngredients(trim(additionalIngredients))
            \o formatFromPresets(presetList, getSelectedPresets(boxes)),
         CommaSpace)

\* buildFormattedLabelText: the canonical ingredient expression
buildFormattedLabelText(presetList, boxes, additionalIngredients) ==
    LET fromPresets ==
            formatFromPresets(presetList, getSelectedPresets(boxes))
        additionalText == trim(additionalIngredients)
        parts == IF additionalText # <<>>
                 THEN fromPresets \o parseIngredients(additionalText)
                 ELSE fromPresets
    IN join(parts, CommaSpace)

(***************************************************************************)
(* Identifiers (src/api/index.js).  A store-generated identifier is an     *)
(* ObjectId, shown as OidHexLen hexadecimal digits; the ObjectId class is  *)
(* the one of the bson library the code imports.  Drivers before bson 5    *)
(* also take any string of OidRawLen characters for the raw bytes of an    *)
(* identifier; acceptsRaw says whether the installed driver does.          *)
(***************************************************************************)
OidHexLen == 24
OidRawLen == 12

HexDigits == {"0","1","2","3","4","5","6","7","8","9",
              "a","b","c","d","e","f","A","B","C","D","E","F"}

\* a store-generated identifier: OidHexLen times the hexadecimal digit c
Oid(c) == [i \in 1..OidHexLen |-> c]

LegacyId == <<"d","-","1">>

IsHexString(id) == \A i \in 1..Len(id) : id[i] \in HexDigits

\* ObjectId.isValid for a string
ObjectIdIsValid(id, acceptsRaw) ==
    \/ Len(id) = OidHexLen /\ IsHexString(id)
    \/ acceptsRaw /\ Len(id) = OidRawLen

\* new ObjectId(id) throws for this string
ObjectIdThrows(id, acceptsRaw) == ~ObjectIdIsValid(id, acceptsRaw)

\* the two hexadecimal digits of the character code of c
CharCodeHex(c) ==
    IF c = "a" THEN <<"6","1">>
    ELSE IF c = "F" THEN <<"4","6">>
    ELSE IF c = "0" THEN <<"3","0">>
    ELSE IF c = "g" THEN <<"6","7">>
    ELSE IF c = "-" THEN <<"2","d">>
    ELSE IF c = "d" THEN <<"6","4">>
    ELSE IF c = "1" THEN <<"3","1">>
    ELSE <<"3","f">>

RECURSIVE hexEncode(_)
hexEncode(raw) ==
    IF raw = <<>> THEN <<>> ELSE CharCodeHex(raw[1]) \o hexEncode(Tail(raw))

\* new ObjectId(id).toString(): the lower-case hexadecimal form
ObjectIdToString(id) ==
    IF Len(id) = OidHexLen /\ IsHexString(id) THEN toLowerCase(id)
    ELSE hexEncode(id)

\* a resolver that takes every valid ObjectId string for a primary key
\* a lookup by _id only, as new ObjectId(id) in the label routes
getPresetQueryByObjectId(id, acceptsRaw) ==
    [field |-> "_id", value |-> id]

getPresetQueryNoRoundTrip(id, acceptsRaw) ==
    IF ObjectIdIsValid(id, acceptsRaw)
    THEN [field |-> "_id", value |-> ObjectIdToString(id)]
    ELSE [field |-> "id", value |-> id]

\* getPresetQuery: { _id: ObjectId } or the legacy { id: id }
getPresetQuery(id, acceptsRaw) ==
    IF /\ ~ObjectIdThrows(id, acceptsRaw)
       /\ ObjectIdIsValid(id, acceptsRaw)
       /\ ObjectIdToString(id) = id
    THEN [field |-> "_id", value |-> ObjectIdToString(id)]
    ELSE [field |-> "id", value |-> id]

(***************************************************************************)
(* Preset search: GET /api/presets/search and the two client searches that *)
(* call it.  The Mongo $regex operator takes the query for a regular       *)
(* expression; of its syntax the model covers literal characters and the   *)
(* wildcard ".".                                                           *)
(***************************************************************************)
\* the pattern matches s at position i ($options: "i")
regexMatchesAt(pattern, s, i) ==
    /\ i + Len(pattern) - 1 <= Len(s)
    /\ \A k \in 1..Len(pattern) :
          \/ pattern[k] = "." /\ s[i + k - 1] # "\n"
          \/ pattern[k] # "."
               /\ toLowerChar(pattern[k]) = toLowerChar(s[i + k - 1])

\* { field: { $regex: pattern, $options: "i" } } for a string field
regexTest(pattern, s) == \E i \in 1..(Len(s) + 1) : regexMatchesAt(pattern, s, i)

\* the $or filter of the search with the query quoted as a literal
presetMatchesRegexLiteral(preset, pattern) ==
    LET has(s) == \E i \in 1..(Len(s) + 1) :
                      /\ i + Len(pattern) - 1 <= Len(s)
                      /\ toLowerCase(SubSeq(s, i, i + Len(pattern) - 1))
                            = toLowerCase(pattern)
    IN \/ has(preset.name)
       \/ has(preset.brandName)
       \/ \E k \in 1..Len(preset.ingredients) : has(preset.ingredients[k])

\* the $or filter of the search: name, brandName or an element of ingredients
presetMatchesRegex(preset, pattern) ==
    \/ regexTest(pattern, preset.name)
    \/ regexTest(pattern, preset.brandName)
    \/ \E k \in 1..Len(preset.ingredients) :
          regexTest(pattern, preset.ingredients[k])

\* GET /api/presets/search?q=...: the presets of the collection it returns
searchPresets(collection, q) ==
    IF trim(q) = <<>> THEN collection
    ELSE LET keep(preset) == presetMatchesRegex(preset, trim(q))
         IN SelectSeq(collection, keep)

\* null as the value of search results: a list no list of presets equals
null == <<[null |-> TRUE]>>

\* performPresetSearch / performIngredientSelectSearch: the new value of the
\* search results, null for "show all"
performSearch(collection, query) ==
    IF trim(query) = <<>> THEN null
    ELSE searchPresets(collection, trim(query))

\* getSortedPresets / renderPresetCheckboxes: the presets put on display
presetsToDisplay(allPresets, searchResults) ==
    IF searchResults # null THEN searchResults ELSE allPresets

(***************************************************************************)
(* The state of the system while a library function is studied alone: a    *)
(* freshly constructed LabelManager and an empty store.                    *)
(***************************************************************************)
\* getEmptyBusinessInfo / emptyBusiness
getEmptyBusinessInfo ==
    [businessName |-> <<>>, businessAddress |-> <<>>, businessCity |-> <<>>,
     businessState |-> <<>>, businessZip |-> <<>>, businessPhone |-> <<>>]

\* the LabelManager after its constructor, before loadInitialData
ConstructedClient ==
    /\ labels = <<>>
    /\ presets = <<>>
    /\ businessInfo = getEmptyBusinessInfo
    /\ editingLabelId = <<>>
    /\ editingPresetId = <<>>
    /\ lastCreatedLabelId = <<>>
    /\ creationMode = "preset"
    /\ presetCheckboxes = <<>>
    /\ presetSearchQuery = <<>>
    /\ presetSearchResults = null
    /\ searchDebounceTimer = 0
    /\ ingredientSelectSearchQuery = <<>>
    /\ ingredientSelectSearchResults = null
    /\ ingredientSelectDebounceTimer = 0
    /\ timers = {}

SystemIdle ==
    /\ ConstructedClient
    /\ loadState = "idle"
    /\ dbLabels = <<>>
    /\ dbPresets = <<>>
    /\ dbBusiness = <<>>
    /\ nextOid = 0
    /\ net = <<>>
    /\ calls = 0

(***************************************************************************)
(* The inputs of the parser: every expression of at most MaxLen characters *)
(* over the characters that matter to it, and the documented examples.     *)
(***************************************************************************)
ExprChars == {"a", "<", ",", "(", ")", " "}

RECURSIVE StringsUpTo(_, _)
StringsUpTo(chars, n) ==
    IF n = 0 THEN {<<>>}
    ELSE LET shorter == StringsUpTo(chars, n - 1)
         IN shorter \cup {Append(s, c) : s \in shorter, c \in chars}

CookieMixExample ==
    <<"C","o","o","k","i","e"," ","M","i","x"," ","(","f","l","o","u","r",",",
      " ","s","u","g","a","r",")",","," ","B","u","t","t","e","r">>

SpicesButterExample ==
    <<"S","p","i","c","e","s"," ","(","C","i","n","n","a","m","o","n",","," ",
      "N","u","t","m","e","g",")",","," ","B","u","t","t","e","r">>

NestedExample ==
    <<"M","i","x"," ","(","a",","," ","(","b",","," ","c",")",","," ","d",")",
      ","," ","E">>

Expressions ==
    StringsUpTo(ExprChars, MaxLen)
        \cup {CookieMixExample, SpicesButterExample, NestedExample}

(***************************************************************************)
(* Specification of the parser: an expression is drawn, then tokenized or  *)
(* formatted.                                                              *)
(***************************************************************************)
InitParser ==
    /\ SystemIdle
    /\ op = "idle"
    /\ input \in Expressions
    /\ output = <<>>

SplitTopLevelCall ==
    /\ op = "idle"
    /\ op' = "splitTopLevel"
    /\ output' = splitTopLevel(input)
    /\ UNCHANGED <<input, sysVars>>

FormatIngredientsCall ==
    /\ op = "idle"
    /\ op' = "formatIngredientsWithBoldPresetNames"
    /\ output' = formatIngredientsWithBoldPresetNames(input)
    /\ UNCHANGED <<input, sysVars>>

NextParser == SplitTopLevelCall \/ FormatIngredientsCall

SpecParser == InitParser /\ [][NextParser]_vars

(***************************************************************************)
(* Reference notions for the claims about the parser.                      *)
(***************************************************************************)
\* how often character c occurs among the first i characters of text
CountUpTo(text, c, i) == Cardinality({j \in 1..i : text[j] = c})

\* parenthesis-nesting depth right after character i of text
DepthAt(text, i) == CountUpTo(text, "(", i) - CountUpTo(text, ")", i)

\* the positions of the commas that stand at nesting depth zero
TopLevelCommas(text) ==
    {i \in 1..Len(text) : text[i] = "," /\ DepthAt(text, i) = 0}

\* the elements of a finite set of integers in increasing order
RECURSIVE SortedSeq(_)
SortedSeq(S) ==
    IF S = {} THEN <<>>
    ELSE LET m == CHOOSE x \in S : \A y \in S : x <= y
         IN <<m>> \o SortedSeq(S \ {m})

\* the trimmed pieces of text between consecutive depth-zero commas
TopLevelSegments(text) ==
    LET cuts == <<0>> \o SortedSeq(TopLevelCommas(text)) \o <<Len(text) + 1>>
    IN [k \in 1..(Len(cuts) - 1) |->
            trim(SubSeq(text, cuts[k] + 1, cuts[k + 1] - 1))]

CookieMixItem ==
    <<"C","o","o","k","i","e"," ","M","i","x"," ","(","f","l","o","u","r",",",
      " ","s","u","g","a","r",")">>

ButterItem == <<"B","u","t","t","e","r">>

\* C1: splitTopLevel separates items at exactly the commas of nesting depth
\* zero: its non-empty items are the non-empty trimmed pieces between
\* consecutive depth-zero commas, so a comma inside a (nested) group stays
\* in its item, and "Cookie Mix (flour, sugar), Butter" yields exactly
\* ["Cookie Mix (flour, sugar)", "Butter"].
C1_TopLevelCommasOnly ==
    op = "splitTopLevel" =>
        /\ SelectSeq(output, IsNonEmpty)
              = SelectSeq(TopLevelSegments(input), IsNonEmpty)
        /\ input = CookieMixExample => output = <<CookieMixItem, ButterItem>>

\* an expression with a comma inside a group and a depth-zero comma was split
C1_Witness ==
    /\ op = "splitTopLevel"
    /\ \E i \in 1..Len(input) : input[i] = "," /\ DepthAt(input, i) > 0
    /\ TopLevelCommas(input) # {}
    /\ Len(output) = 2
    /\ HasChar(output[1], ",")

(***************************************************************************)
(* The emphasized and the unemphasized stretches of a formatted fragment.  *)
(***************************************************************************)
TokenPositions(markup, tok) ==
    SortedSeq({i \in 1..Len(markup) : markup[i] = tok})

\* the text between the k-th <strong> and its </strong>
EmphasizedText(markup, k) ==
    SubSeq(markup, TokenPositions(markup, "<strong>")[k] + 1,
                   TokenPositions(markup, "</strong>")[k] - 1)

\* the text from the k-th </strong> to the next <strong> or the end
TextAfterEmphasis(markup, k) ==
    LET opens == TokenPositions(markup, "<strong>")
        closes == TokenPositions(markup, "</strong>")
        stop == IF k < Len(opens) THEN opens[k + 1] ELSE Len(markup) + 1
    IN SubSeq(markup, closes[k] + 1, stop - 1)

\* the part of an item from its first "(" on
Parenthetical(item) == SubSeq(item, indexOf(item, "(") + 1, Len(item))

\* the part of an item before its first "("
BeforeParenthesis(item) == SubSeq(item, 1, indexOf(item, "("))

Separator(items, k) == IF k < Len(items) THEN CommaSpace ELSE <<>>

SpicesPreset ==
    [id |-> Oid("a"), name |-> <<"S","p","i","c","e","s">>, brandName |-> <<>>,
     ingredients |-> <<<<"C","i","n","n","a","m","o","n">>, <<"N","u","t","m","e","g">>>>]

EggsPreset ==
    [id |-> Oid("b"), name |-> <<"E","g","g","s">>, brandName |-> <<>>, ingredients |-> <<>>]

DairyPreset ==
    [id |-> LegacyId, name |-> <<"D","a","i","r","y">>, brandName |-> <<"A","c","m","e">>,
     ingredients |-> <<<<"M","i","l","k">>>>]

PresetPool == <<SpicesPreset, EggsPreset, DairyPreset>>

\* the ids a checkbox can carry: those of the pool and one of no preset
CheckboxIds == {Oid("a"), Oid("b"), LegacyId, Oid("f")}

RECURSIVE CheckboxLists(_)
CheckboxLists(n) ==
    IF n = 0 THEN {<<>>}
    ELSE LET shorter == CheckboxLists(n - 1)
         IN shorter \cup
            {Append(l, [value |-> v, checked |-> c]) :
                l \in {x \in shorter : Len(x) = n - 1},
                v \in CheckboxIds, c \in BOOLEAN}

DistinctValues(l) == \A i, j \in 1..Len(l) : i # j => l[i].value # l[j].value

VanillaSaltExample == <<"V","a","n","i","l","l","a",","," ","S","a","l","t">>

AdditionalTexts ==
    StringsUpTo({"v", ",", " "}, MaxAddLen) \cup {VanillaSaltExample}

AggregatorInputs ==
    {[presets |-> PresetPool, presetCheckboxes |-> l, additionalIngredients |-> t] :
        l \in {x \in CheckboxLists(MaxBoxes) : DistinctValues(x)},
        t \in AdditionalTexts}

InitAggregator ==
    /\ SystemIdle
    /\ op = "idle"
    /\ input \in AggregatorInputs
    /\ output = <<>>

AggregateCall ==
    /\ op = "idle"
    /\ op' = "aggregate"
    /\ output' =
          [canonicalExpression |->
               buildFormattedLabelText(input.presets, input.presetCheckboxes,
                                       input.additionalIngredients),
           flatList |->
               collectAllIngredients(input.presets, input.presetCheckboxes,
                                     input.additionalIngredients)]
    /\ UNCHANGED <<input, sysVars>>

NextAggregator == AggregateCall

SpecAggregator == InitAggregator /\ [][NextAggregator]_vars

(***************************************************************************)
(* Reference notions for the claims about the aggregator.                  *)
(***************************************************************************)
IsChecked(box) == box.checked

\* the selected presets as records, in the order of the selection, the ids
\* that name no preset left out
SelectedPresetRecords(in) ==
    LET checked == SelectSeq(in.presetCheckboxes, IsChecked)
        known(box) == \E i \in 1..Len(in.presets) : in.presets[i].id = box.value
        boxes == SelectSeq(checked, known)
    IN [k \in 1..Len(boxes) |->
           CHOOSE q \in {in.presets[i] : i \in 1..Len(in.presets)} :
               q.id = boxes[k].value]

\* what one preset contributes to the expression
PartOf(preset) ==
    IF preset.ingredients # <<>>
    THEN preset.name \o <<" ", "(">> \o join(preset.ingredients, CommaSpace)
             \o <<")">>
    ELSE preset.name

\* what one preset contributes to flatList
FlatOf(preset) ==
    IF preset.ingredients # <<>> THEN preset.ingredients ELSE <<preset.name>>

RECURSIVE Flatten(_)
Flatten(seqs) == IF seqs = <<>> THEN <<>> ELSE seqs[1] \o Flatten(Tail(seqs))

\* the trimmed non-empty pieces of text between consecutive commas
CommaTokens(text) ==
    LET cuts == <<0>> \o SortedSeq({i \in 1..Len(text) : text[i] = ","})
                    \o <<Len(text) + 1>>
        pieces == [k \in 1..(Len(cuts) - 1) |->
                      trim(SubSeq(text, cuts[k] + 1, cuts[k + 1] - 1))]
    IN SelectSeq(pieces, IsNonEmpty)

IsPrefix(p, s) == Len(p) <= Len(s) /\ SubSeq(s, 1, Len(p)) = p

EggsExample ==
    [presets |-> PresetPool,
     presetCheckboxes |-> <<[value |-> Oid("b"), checked |-> TRUE]>>,
     additionalIngredients |-> <<>>]

SpicesVanillaSaltExample ==
    [presets |-> PresetPool,
     presetCheckboxes |-> <<[value |-> Oid("a"), checked |-> TRUE]>>,
     additionalIngredients |-> VanillaSaltExample]

\* C2: each selected preset contributes "<name> (<sub1>, <sub2>, ...)" to the
\* expression and its sub-ingredients (not its name) to flatList when it has
\* sub-ingredients, and "<name>" to both when it has none; the preset
\* contributions open the expression and flatList.  Eggs alone gives the
\* expression "Eggs" and flatList ["Eggs"].
C2_PresetContribution ==
    op = "aggregate" =>
        LET sel == SelectedPresetRecords(input)
        IN /\ IsPrefix(join([k \in 1..Len(sel) |-> PartOf(sel[k])], CommaSpace),
                       output.canonicalExpression)
           /\ IsPrefix(Flatten([k \in 1..Len(sel) |-> FlatOf(sel[k])]),
                       output.flatList)
           /\ input = EggsExample =>
                 /\ output.canonicalExpression = <<"E","g","g","s">>
                 /\ output.flatList = <<<<"E","g","g","s">>>>

\* a preset with sub-ingredients and one without were aggregated together
C2_Witness ==
    /\ op = "aggregate"
    /\ \E k \in 1..Len(SelectedPresetRecords(input)) :
          SelectedPresetRecords(input)[k].ingredients # <<>>
    /\ \E k \in 1..Len(SelectedPresetRecords(input)) :
          SelectedPresetRecords(input)[k].ingredients = <<>>
    /\ Len(output.flatList) >= 3

\* C3: the expression is the preset parts in selection order followed by the
\* trimmed non-empty comma-separated tokens of the additional text in text
\* order, joined with ", ", and flatList is the preset ingredients followed
\* by the same tokens; nothing is sorted.  Spices[Cinnamon, Nutmeg] with
\* "Vanilla, Salt" gives "Spices (Cinnamon, Nutmeg), Vanilla, Salt" and
\* [Cinnamon, Nutmeg, Vanilla, Salt].
C3_SelectionThenTextOrder ==
    op = "aggregate" =>
        LET sel == SelectedPresetRecords(input)
            tokens == CommaTokens(input.additionalIngredients)
        IN /\ output.canonicalExpression
                 = join([k \in 1..Len(sel) |-> PartOf(sel[k])] \o tokens,
                        CommaSpace)
           /\ output.flatList
                 = Flatten([k \in 1..Len(sel) |-> FlatOf(sel[k])]) \o tokens
           /\ input = SpicesVanillaSaltExample =>
                 /\ output.canonicalExpression = <<"S","p","i","c","e","s"," ","(","C","i","n","n","a","m","o","n",","," ","N","u","t","m","e","g",")",","," ","V","a","n","i","l","l","a",","," ","S","a","l","t">>
                 /\ output.flatList = <<<<"C","i","n","n","a","m","o","n">>, <<"N","u","t","m","e","g">>, <<"V","a","n","i","l","l","a">>, <<"S","a","l","t">>>>

\* presets selected against the alphabetical order of their names were
\* aggregated with two additional tokens
C3_Witness ==
    /\ op = "aggregate"
    /\ Len(SelectedPresetRecords(input)) >= 2
    /\ SelectedPresetRecords(input)[1] = SpicesPreset
    /\ SelectedPresetRecords(input)[2] = EggsPreset
    /\ Len(CommaTokens(input.additionalIngredients)) = 2
    /\ Len(output.flatList) = 5

(***************************************************************************)
(* Specification of the identifier resolver.                               *)
(***************************************************************************)
IdChars == {"a", "F", "0", "g", "-"}

DefaultOneId == <<"d","e","f","a","u","l","t","-","1">>

\* identifiers of every length up to MaxIdLen: one character, then a run of
\* another
Identifiers ==
    {[i \in 1..n |-> IF i = 1 THEN c1 ELSE c2] :
        n \in 1..MaxIdLen, c1 \in IdChars, c2 \in IdChars}
      \cup {DefaultOneId, LegacyId}

InitResolver ==
    /\ SystemIdle
    /\ op = "idle"
    /\ input \in {[id |-> id, acceptsRaw |-> b] :
                     id \in Identifiers, b \in BOOLEAN}
    /\ output = <<>>

GetPresetQueryCall ==
    /\ op = "idle"
    /\ op' = "getPresetQuery"
    /\ output' = getPresetQuery(input.id, input.acceptsRaw)
    /\ UNCHANGED <<input, sysVars>>

NextResolver == GetPresetQueryCall

SpecResolver == InitResolver /\ [][NextResolver]_vars

LowerHexDigits == {"0","1","2","3","4","5","6","7","8","9",
                   "a","b","c","d","e","f"}

\* the statement of C8 as the specification words it: every string of 24
\* hexadecimal digits resolves to a primary-key lookup, every other string
\* to the legacy lookup
C8_Original ==
    op = "getPresetQuery" =>
        IF Len(input.id) = 24 /\ \A i \in 1..24 : input.id[i] \in HexDigits
        THEN output.field = "_id"
        ELSE output = [field |-> "id", value |-> input.id]

\* C8 (amended): getPresetQuery yields a primary-key lookup (on that very
\* identifier) for every string of 24 digits and lower-case hexadecimal
\* letters, and the legacy-field lookup {id: id} for every other non-empty
\* string, "default-1" and a 24-digit string with an upper-case letter
\* included, whichever driver is installed.
C8_ResolveLookup ==
    op = "getPresetQuery" =>
        /\ IF Len(input.id) = 24
                 /\ \A i \in 1..24 : input.id[i] \in LowerHexDigits
              THEN output = [field |-> "_id", value |-> input.id]
              ELSE output = [field |-> "id", value |-> input.id]
        /\ input.id = DefaultOneId => output.field = "id"

\* a 24-digit identifier with an upper-case digit was resolved to the legacy
\* lookup
C8_Witness ==
    /\ op = "getPresetQuery"
    /\ Len(input.id) = 24
    /\ \A i \in 1..24 : input.id[i] \in HexDigits
    /\ \E i \in 1..24 : input.id[i] \notin LowerHexDigits
    /\ output.field = "id"

(***************************************************************************)
(* Specification of the preset search.                                     *)
(***************************************************************************)
QueryChars == {"c", "I", ".", " "}

SearchQueries == StringsUpTo(QueryChars, MaxQueryLen)

InitMatcher ==
    /\ SystemIdle
    /\ op = "idle"
    /\ input \in {[presets |-> PresetPool, query |-> q] : q \in SearchQueries}
    /\ output = <<>>

PerformPresetSearchCall ==
    /\ op = "idle"
    /\ op' = "performPresetSearch"
    /\ output' = presetsToDisplay(input.presets,
                                  performSearch(input.presets, input.query))
    /\ UNCHANGED <<input, sysVars>>

PerformIngredientSelectSearchCall ==
    /\ op = "idle"
    /\ op' = "performIngredientSelectSearch"
    /\ output' = presetsToDisplay(input.presets,
                                  performSearch(input.presets, input.query))
    /\ UNCHANGED <<input, sysVars>>

NextMatcher == PerformPresetSearchCall \/ PerformIngredientSelectSearchCall

SpecMatcher == InitMatcher /\ [][NextMatcher]_vars

\* q occurs in s, letter case ignored
IsSubstringIgnoringCase(q, s) ==
    \E i \in 1..(Len(s) + 1) :
        /\ i + Len(q) - 1 <= Len(s)
        /\ \A k \in 1..Len(q) : toLowerChar(q[k]) = toLowerChar(s[i + k - 1])

\* C10: in both searches a preset is displayed exactly when the query is
\* empty or whitespace-only, or the (trimmed) query is a case-insensitive
\* substring of its name, of its brandName or of one of its ingredients
C10_SubstringMatch ==
    op \in {"performPresetSearch", "performIngredientSelectSearch"} =>
        \A k \in 1..Len(input.presets) :
            LET preset == input.presets[k]
                q == trim(input.query)
            IN (\E j \in 1..Len(output) : output[j] = preset)
                 <=> \/ q = <<>>
                     \/ IsSubstringIgnoringCase(q, preset.name)
                     \/ IsSubstringIgnoringCase(q, preset.brandName)
                     \/ \E j \in 1..Len(preset.ingredients) :
                           IsSubstringIgnoringCase(q, preset.ingredients[j])

(***************************************************************************)
(* Specification of the renderer: a label record is drawn, then rendered.  *)
(***************************************************************************)
MarkupExample == <<"a","<","b"," ","(","<","i",">","x","<","/","i",">","&",")",","," ","<","c">>

RenderTexts ==
    {<<>>, <<" ">>, <<"a">>, <<" ","a"," "," ","b",","," ","c"," ">>, <<"(","x","<",")",","," ","y">>, <<"a"," ","(","b",")"," ","<","c",">">>,
     MarkupExample, SpicesButterExample}

RenderPlaces ==
    {[city |-> <<>>, state |-> <<>>, zip |-> <<>>],
     [city |-> <<"C", "&">>, state |-> <<"S">>, zip |-> <<"9">>],
     [city |-> <<>>, state |-> <<>>, zip |-> <<"<", "9">>]}

\* the text of a label and, for a label of an older shape, ingredientsText
RenderIngredients ==
    {[text |-> t, ingredientsText |-> it] :
        t \in RenderTexts, it \in {<<>>}}
    \cup {[text |-> t, ingredientsText |-> <<"i", "<">>] :
              t \in {<<>>, <<" ">>, <<"a">>}}

\* the business fields; without a name the others are all empty or all set
RenderBusinesses ==
    {b \in [name : {<<>>, <<"B", ">">>}, address : {<<>>, <<"1", "<">>},
            place : RenderPlaces, phone : {<<>>, <<"5">>}] :
        b.name = <<>> =>
            \/ b.address = <<>> /\ b.place.zip = <<>> /\ b.phone = <<>>
            \/ b.address # <<>> /\ b.place.city # <<>> /\ b.phone # <<>>}

\* quantity and unit; the unit is read only next to a quantity
RenderQuantities ==
    {qu \in [q : {<<>>, <<"2", "<">>}, u : {<<>>, <<"g", "&">>}] :
        qu.q = <<>> => qu.u = <<>>}

RenderLabels ==
    {[name |-> n, text |-> ing.text, ingredientsText |-> ing.ingredientsText,
      allergens |-> al, allergenDetails |-> ad,
      businessName |-> b.name, businessAddress |-> b.address,
      businessCity |-> b.place.city, businessState |-> b.place.state,
      businessZip |-> b.place.zip, businessPhone |-> b.phone,
      netQuantity |-> qu.q, netQuantityUnit |-> qu.u,
      includeCottageDisclaimer |-> cd] :
        n \in {<<>>, <<"N", "<", "&">>},
        ing \in RenderIngredients,
        al \in {<<>>, <<<<"m", "&">>>>, <<<<"m">>, <<"<", "n", ">">>>>},
        ad \in {<<>>, <<"t">>},
        b \in RenderBusinesses,
        qu \in RenderQuantities,
        cd \in BOOLEAN}

InitRender ==
    /\ SystemIdle
    /\ op = "idle"
    /\ input \in RenderLabels
    /\ output = <<>>

BuildFormattedLabelHtmlCall ==
    /\ op = "idle"
    /\ op' = "buildFormattedLabelHtml"
    /\ output' = buildFormattedLabelHtml(input)
    /\ UNCHANGED <<input, sysVars>>

BuildFullLabelTextCall ==
    /\ op = "idle"
    /\ op' = "buildFullLabelText"
    /\ output' = buildFullLabelText(input)
    /\ UNCHANGED <<input, sysVars>>

\* copyRichText: the markup and the plain text put on the clipboard
CopyRichTextCall ==
    /\ op = "idle"
    /\ op' = "copyRichText"
    /\ output' = [html |-> buildFormattedLabelHtml(input),
                  plainText |-> buildFullLabelText(input)]
    /\ UNCHANGED <<input, sysVars>>

\* stripBracketsFromIngredients on the text of the label
StripBracketsCall ==
    /\ op = "idle"
    /\ op' = "stripBracketsFromIngredients"
    /\ output' = stripBracketsFromIngredients(input.text)
    /\ UNCHANGED <<input, sysVars>>

NextRender ==
    \/ BuildFormattedLabelHtmlCall
    \/ BuildFullLabelTextCall
    \/ CopyRichTextCall
    \/ StripBracketsCall

SpecRender == InitRender /\ [][NextRender]_vars

(***************************************************************************)
(* Reference notions for the claims about the rich markup.                 *)
(***************************************************************************)
\* position i of the markup lies in the preserved rest of an ingredient
\* item: after a </strong> that a space and a "(" follow, and before the
\* next element boundary
InPreservedParenthetical(markup, i) ==
    \E c \in 1..(i - 1) :
        /\ markup[c] = "</strong>"
        /\ c + 2 <= Len(markup)
        /\ markup[c + 1] = " "
        /\ markup[c + 2] = "("
        /\ i >= c + 2
        /\ \A j \in (c + 1)..i : markup[j] \notin {"<strong>", "</div>"}

\* an entity that escapeHtml writes starts at position i
EntityAt(markup, i) ==
    \E e \in {<<"&","a","m","p",";">>, <<"&","l","t",";">>, <<"&","g","t",";">>} :
        /\ i + Len(e) - 1 <= Len(markup)
        /\ SubSeq(markup, i, i + Len(e) - 1) = e

OidDigits == <<"1", "2", "3", "4", "5", "6", "7", "8", "9">>

\* the n-th identifier the store generates
NewOid(n) == Oid(OidDigits[n])

\* stripMongoId: { id: _id.toString(), ...rest }, a legacy id in rest wins
stripMongoId(doc) ==
    [f \in (DOMAIN doc) \ {"_id"} |->
        IF f = "id" THEN (IF doc.id # <<>> THEN doc.id ELSE doc._id)
        ELSE doc[f]]

stripAll(docs) == [i \in 1..Len(docs) |-> stripMongoId(docs[i])]

\* { $set: updates } after "delete updates._id; delete updates.id"
setFields(doc, updates) ==
    [f \in DOMAIN doc |->
        IF f \in (DOMAIN updates) \ {"_id", "id"} THEN updates[f] ELSE doc[f]]

\* the document POST /api/labels builds from the request body and inserts
newLabelDoc(oid, body) ==
    [_id |-> oid, id |-> <<>>,
     name |-> body.name, text |-> body.text,
     creationMode |-> body.creationMode,
     selectedPresetIds |-> body.selectedPresetIds,
     additionalIngredientsText |-> body.additionalIngredientsText,
     ingredients |-> body.ingredients,
     netQuantity |-> body.netQuantity,
     netQuantityUnit |-> IF body.netQuantityUnit # <<>>
                         THEN body.netQuantityUnit ELSE DefaultUnit,
     allergens |-> body.allergens,
     allergenDetails |-> body.allergenDetails,
     includeCottageDisclaimer |-> body.includeCottageDisclaimer,
     businessName |-> <<>>, businessAddress |-> <<>>, businessCity |-> <<>>,
     businessState |-> <<>>, businessZip |-> <<>>, businessPhone |-> <<>>]

\* the document POST /api/presets builds from the request body and inserts
newPresetDoc(oid, body) ==
    [_id |-> oid, id |-> <<>>, name |-> body.name,
     brandName |-> body.brandName, ingredients |-> body.ingredients]

\* the constant defaultPresets
defaultPresets == <<
    [name |-> <<"B","a","k","i","n","g"," ","B","a","s","i","c","s">>,
     ingredients |->
       <<<<"F","l","o","u","r">>,
         <<"S","u","g","a","r">>,
         <<"S","a","l","t">>,
         <<"B","a","k","i","n","g"," ","P","o","w","d","e","r">>,
         <<"B","a","k","i","n","g"," ","S","o","d","a">>>>],
    [name |-> <<"S","p","i","c","e","s">>,
     ingredients |->
       <<<<"C","i","n","n","a","m","o","n">>,
         <<"V","a","n","i","l","l","a">>,
         <<"N","u","t","m","e","g">>,
         <<"G","i","n","g","e","r">>,
         <<"C","l","o","v","e","s">>>>],
    [name |-> <<"D","a","i","r","y">>,
     ingredients |->
       <<<<"B","u","t","t","e","r">>,
         <<"M","i","l","k">>,
         <<"E","g","g","s">>,
         <<"H","e","a","v","y"," ","C","r","e","a","m">>,
         <<"S","o","u","r"," ","C","r","e","a","m">>>>],
    [name |-> <<"N","u","t","s"," ","&"," ","S","e","e","d","s">>,
     ingredients |->
       <<<<"A","l","m","o","n","d","s">>,
         <<"W","a","l","n","u","t","s">>,
         <<"P","e","c","a","n","s">>,
         <<"S","u","n","f","l","o","w","e","r"," ","S","e","e","d","s">>,
         <<"C","h","i","a"," ","S","e","e","d","s">>>>],
    [name |-> <<"C","h","o","c","o","l","a","t","e">>,
     ingredients |->
       <<<<"C","o","c","o","a"," ","P","o","w","d","e","r">>,
         <<"C","h","o","c","o","l","a","t","e"," ","C","h","i","p","s">>,
         <<"D","a","r","k"," ","C","h","o","c","o","l","a","t","e">>,
         <<"W","h","i","t","e"," ","C","h","o","c","o","l","a","t","e">>>>],
    [name |-> <<"F","r","u","i","t","s">>,
     ingredients |->
       <<<<"B","l","u","e","b","e","r","r","i","e","s">>,
         <<"S","t","r","a","w","b","e","r","r","i","e","s">>,
         <<"B","a","n","a","n","a","s">>,
         <<"A","p","p","l","e","s">>,
         <<"L","e","m","o","n","s">>>>] >>

SeedLetters == <<"a", "b", "c", "d", "e", "f">>

\* the identifier of the k-th document of the n-th insert, an insertMany
SeedOid(n, k) ==
    [j \in 1..OidHexLen |-> IF j = 1 THEN OidDigits[n] ELSE SeedLetters[k]]

\* the documents GET /api/presets inserts into an empty collection
defaultPresetDocs(n) ==
    [k \in 1..Len(defaultPresets) |->
        [_id |-> SeedOid(n + 1, k), id |-> <<>>,
         name |-> defaultPresets[k].name, brandName |-> <<>>,
         ingredients |-> defaultPresets[k].ingredients]]

\* the document matches the query of getPresetQuery
matchesQuery(doc, query) ==
    IF query.field = "_id" THEN doc._id = query.value
    ELSE doc.id # <<>> /\ doc.id = query.value

\* the position of the first document that matches, 0 when none does
findFirst(docs, query) ==
    IF \E i \in 1..Len(docs) : matchesQuery(docs[i], query)
    THEN CHOOSE i \in 1..Len(docs) :
             /\ matchesQuery(docs[i], query)
             /\ \A j \in 1..(i - 1) : ~matchesQuery(docs[j], query)
    ELSE 0

\* the list without its k-th element
removeAt(xs, k) == SubSeq(xs, 1, k - 1) \o SubSeq(xs, k + 1, Len(xs))

\* res.status(status).json(data); err is the exception the handler caught
\* and wrote to the console, "none" when it caught none
respond(i, status, data, err) ==
    net' = [net EXCEPT ![i] = [@ EXCEPT !.stage = "response",
                                        !.status = status,
                                        !.data = data,
                                        !.err = err]]

isRequest(i, method, path) ==
    /\ net[i].stage = "request"
    /\ net[i].method = method
    /\ net[i].path = path

\* app.get("/api/labels")
GetLabels(i) ==
    /\ isRequest(i, "GET", "labels")
    /\ respond(i, 200, stripAll(dbLabels), "none")
    /\ UNCHANGED <<calls, fnVars, searchVars, clientVars, serverVars>>

\* app.post("/api/labels")
PostLabels(i) ==
    /\ isRequest(i, "POST", "labels")
    /\ LET label == newLabelDoc(NewOid(nextOid + 1), net[i].body)
       IN /\ dbLabels' = Append(dbLabels, label)
          /\ nextOid' = nextOid + 1
          /\ respond(i, 201, stripMongoId(label), "none")
    /\ UNCHANGED <<calls, fnVars, searchVars, clientVars, dbPresets, dbBusiness>>

\* app.put("/api/labels/:id")
PutLabels(i) ==
    /\ isRequest(i, "PUT", "labels")
    /\ \E acceptsRaw \in BOOLEAN :
          IF ObjectIdThrows(net[i].id, acceptsRaw)
          THEN /\ respond(i, 500, <<>>, "BSONError")
               /\ UNCHANGED dbLabels
          ELSE LET k == findFirst(dbLabels,
                          [field |-> "_id", value |-> ObjectIdToString(net[i].id)])
               IN IF k = 0
                  THEN /\ respond(i, 404, <<>>, "none")
                       /\ UNCHANGED dbLabels
                  ELSE LET result == setFields(dbLabels[k], net[i].body)
                       IN /\ dbLabels' = [dbLabels EXCEPT ![k] = result]
                          /\ respond(i, 200, stripMongoId(result), "none")
    /\ UNCHANGED <<calls, fnVars, searchVars, clientVars, dbPresets, dbBusiness, nextOid>>

\* app.delete("/api/labels/:id")
DeleteLabels(i) ==
    /\ isRequest(i, "DELETE", "labels")
    /\ \E acceptsRaw \in BOOLEAN :
          IF ObjectIdThrows(net[i].id, acceptsRaw)
          THEN /\ respond(i, 500, <<>>, "BSONError")
               /\ UNCHANGED dbLabels
          ELSE LET k == findFirst(dbLabels,
                          [field |-> "_id", value |-> ObjectIdToString(net[i].id)])
               IN IF k = 0
                  THEN /\ respond(i, 404, <<>>, "none")
                       /\ UNCHANGED dbLabels
                  ELSE /\ dbLabels' = removeAt(dbLabels, k)
                       /\ respond(i, 200, <<>>, "none")
    /\ UNCHANGED <<calls, fnVars, searchVars, clientVars, dbPresets, dbBusiness, nextOid>>

\* app.get("/api/presets")
GetPresets(i) ==
    /\ isRequest(i, "GET", "presets")
    /\ IF Len(dbPresets) = 0
       THEN /\ dbPresets' = defaultPresetDocs(nextOid)
            /\ nextOid' = nextOid + 1
            /\ respond(i, 200, stripAll(defaultPresetDocs(nextOid)), "none")
       ELSE /\ respond(i, 200, stripAll(dbPresets), "none")
            /\ UNCHANGED <<dbPresets, nextOid>>
    /\ UNCHANGED <<calls, fnVars, searchVars, clientVars, dbLabels, dbBusiness>>

\* app.post("/api/presets")
PostPresets(i) ==
    /\ isRequest(i, "POST", "presets")
    /\ LET preset == newPresetDoc(NewOid(nextOid + 1), net[i].body)
       IN /\ dbPresets' = Append(dbPresets, preset)
          /\ nextOid' = nextOid + 1
          /\ respond(i, 201, stripMongoId(preset), "none")
    /\ UNCHANGED <<calls, fnVars, searchVars, clientVars, dbLabels, dbBusiness>>

\* app.put("/api/presets/:id")
PutPresets(i) ==
    /\ isRequest(i, "PUT", "presets")
    /\ \E acceptsRaw \in BOOLEAN :
          LET k == findFirst(dbPresets, getPresetQuery(net[i].id, acceptsRaw))
          IN IF k = 0
             THEN /\ respond(i, 404, <<>>, "none")
                  /\ UNCHANGED dbPresets
             ELSE LET result == setFields(dbPresets[k], net[i].body)
                  IN /\ dbPresets' = [dbPresets EXCEPT ![k] = result]
                     /\ respond(i, 200, stripMongoId(result), "none")
    /\ UNCHANGED <<calls, fnVars, searchVars, clientVars, dbLabels, dbBusiness, nextOid>>

\* app.delete("/api/presets/:id")
DeletePresets(i) ==
    /\ isRequest(i, "DELETE", "presets")
    /\ \E acceptsRaw \in BOOLEAN :
          LET k == findFirst(dbPresets, getPresetQuery(net[i].id, acceptsRaw))
          IN IF k = 0
             THEN /\ respond(i, 404, <<>>, "none")
                  /\ UNCHANGED dbPresets
             ELSE /\ dbPresets' = removeAt(dbPresets, k)
                  /\ respond(i, 200, <<>>, "none")
    /\ UNCHANGED <<calls, fnVars, searchVars, clientVars, dbLabels, dbBusiness, nextOid>>

\* app.get("/api/business")
GetBusiness(i) ==
    /\ isRequest(i, "GET", "business")
    /\ respond(i, 200,
               IF dbBusiness # <<>> THEN dbBusiness[1] ELSE getEmptyBusinessInfo,
               "none")
    /\ UNCHANGED <<calls, fnVars, searchVars, clientVars, serverVars>>

\* app.post("/api/business")
PostBusiness(i) ==
    /\ isRequest(i, "POST", "business")
    /\ dbBusiness' = <<net[i].body>>
    /\ respond(i, 200, net[i].body, "none")
    /\ UNCHANGED <<calls, fnVars, searchVars, clientVars, dbLabels, dbPresets, nextOid>>

\* the catch block of every handler when getDb() or the store throws
ServerFails(i) ==
    /\ net[i].stage = "request"
    /\ respond(i, 500, <<>>, "MongoError")
    /\ UNCHANGED <<calls, fnVars, searchVars, clientVars, serverVars>>

(***************************************************************************)
(* The client (src/app.js).  A call of apiRequest is a record in net: the  *)
(* request until a handler of the server answers it, the response until    *)
(* the awaiting method of the client resumes.  The text fields of a form   *)
(* are inputs of the submit handler; the mode select and the preset        *)
(* checkboxes are state, since the code re-renders and resets them.        *)
(***************************************************************************)
request(method, path, from, id, body) ==
    [method |-> method, path |-> path, from |-> from, id |-> id, body |-> body,
     stage |-> "request", status |-> 0, data |-> <<>>, err |-> "none"]

isResponse(i, method, path) ==
    /\ net[i].stage = "response"
    /\ net[i].from = "client"
    /\ net[i].method = method
    /\ net[i].path = path

\* response.ok
isOk(msg) == msg.status \in {200, 201}

\* the position of the label or preset with this id, 0 when there is none
\* (Array.prototype.findIndex, -1 in the code)
findIndex(xs, id) ==
    IF \E i \in 1..Len(xs) : xs[i].id = id
    THEN CHOOSE i \in 1..Len(xs) :
             xs[i].id = id /\ \A j \in 1..(i - 1) : xs[j].id # id
    ELSE 0

\* renderPresetCheckboxes: the checkboxes after the re-rendering
renderPresetCheckboxes(allPresets, searchResults, boxes) ==
    LET previouslySelected == getSelectedPresets(boxes)
        shown == presetsToDisplay(allPresets, searchResults)
    IN IF Len(allPresets) = 0 THEN <<>>
       ELSE [k \in 1..Len(shown) |->
                [value |-> shown[k].id,
                 checked |-> \E j \in 1..Len(previouslySelected) :
                                 previouslySelected[j] = shown[k].id]]

\* setSelectedPresets
setSelectedPresets(boxes, selectedPresetIds) ==
    [k \in 1..Len(boxes) |->
        [value |-> boxes[k].value,
         checked |-> \E j \in 1..Len(selectedPresetIds) :
                         selectedPresetIds[j] = boxes[k].value]]

\* resetForm: form.reset(), the mode back to "preset", the checkboxes
\* rendered again
resetFormBoxes(allPresets, boxes) ==
    renderPresetCheckboxes(allPresets, ingredientSelectSearchResults,
                           setSelectedPresets(boxes, <<>>))

\* updatePresetDropdown
updatePresetDropdown(mode, allPresets, boxes) ==
    IF mode = "preset"
    THEN renderPresetCheckboxes(allPresets, ingredientSelectSearchResults, boxes)
    ELSE boxes

\* a validation of the name and the manual text only
validateFormNoIngredientCheck(mode, f, allPresets, boxes) ==
    /\ trim(f.labelName) # <<>>
    /\ Len(trim(f.labelName)) >= 2
    /\ mode = "manual" =>
          /\ trim(f.labelText) # <<>>
          /\ Len(trim(f.labelText)) >= 2

\* validateForm
validateForm(mode, f, allPresets, boxes) ==
    /\ trim(f.labelName) # <<>>
    /\ Len(trim(f.labelName)) >= 2
    /\ mode = "manual" =>
          /\ trim(f.labelText) # <<>>
          /\ Len(trim(f.labelText)) >= 2
    /\ mode = "preset" =>
          Len(collectAllIngredients(allPresets, boxes, f.additionalIngredients)) # 0

\* collectFDAData: the business data read from the form
businessData(f) ==
    [businessName |-> trim(f.businessName),
     businessAddress |-> trim(f.businessAddress),
     businessCity |-> trim(f.businessCity),
     businessState |-> toUpperCase(trim(f.businessState)),
     businessZip |-> trim(f.businessZip),
     businessPhone |-> trim(f.businessPhone)]

\* labelData that keeps the text field of the form in preset mode too
labelDataTextField(mode, f, allPresets, boxes) ==
    LET b == businessData(f)
    IN [name |-> trim(f.labelName),
        text |-> trim(f.labelText),
        creationMode |-> mode,
        selectedPresetIds |->
            IF mode = "preset" THEN getSelectedPresets(boxes) ELSE <<>>,
        additionalIngredientsText |->
            IF mode = "preset" THEN trim(f.additionalIngredients) ELSE <<>>,
        ingredients |->
            IF mode = "preset"
            THEN collectAllIngredients(allPresets, boxes, f.additionalIngredients)
            ELSE <<>>,
        netQuantity |-> f.netQuantity,
        netQuantityUnit |-> f.netQuantityUnit,
        allergens |-> f.allergens,
        allergenDetails |-> trim(f.allergenDetails),
        businessName |-> b.businessName,
        businessAddress |-> b.businessAddress,
        businessCity |-> b.businessCity,
        businessState |-> b.businessState,
        businessZip |-> b.businessZip,
        businessPhone |-> b.businessPhone,
        includeCottageDisclaimer |-> f.includeCottageDisclaimer]

\* labelData with the manual text as it was typed, its ends not trimmed
labelDataUntrimmedText(mode, f, allPresets, boxes) ==
    [labelDataTextField(mode, f, allPresets, boxes) EXCEPT
        !.text = IF mode = "preset"
                 THEN buildFormattedLabelText(allPresets, boxes,
                                              f.additionalIngredients)
                 ELSE f.labelText]

\* handleSubmit: the labelData sent to createLabel or updateLabel
labelData(mode, f, allPresets, boxes) ==
    LET b == businessData(f)
    IN [name |-> trim(f.labelName),
        text |->
            IF mode = "preset"
            THEN buildFormattedLabelText(allPresets, boxes, f.additionalIngredients)
            ELSE trim(f.labelText),
        creationMode |-> mode,
        selectedPresetIds |->
            IF mode = "preset" THEN getSelectedPresets(boxes) ELSE <<>>,
        additionalIngredientsText |->
            IF mode = "preset" THEN trim(f.additionalIngredients) ELSE <<>>,
        ingredients |->
            IF mode = "preset"
            THEN collectAllIngredients(allPresets, boxes, f.additionalIngredients)
            ELSE <<>>,
        netQuantity |-> f.netQuantity,
        netQuantityUnit |-> f.netQuantityUnit,
        allergens |-> f.allergens,
        allergenDetails |-> trim(f.allergenDetails),
        businessName |-> b.businessName,
        businessAddress |-> b.businessAddress,
        businessCity |-> b.businessCity,
        businessState |-> b.businessState,
        businessZip |-> b.businessZip,
        businessPhone |-> b.businessPhone,
        includeCottageDisclaimer |-> f.includeCottageDisclaimer]

\* saveBusinessInfo: { ...this.businessInfo, ...info }
businessPayload(info) ==
    [k \in DOMAIN businessInfo |->
        IF k \in DOMAIN info THEN info[k] ELSE businessInfo[k]]

(***************************************************************************)
(* What the user can enter.                                                *)
(***************************************************************************)
\* what the user types into the business fields
BusinessForms ==
    {[businessName |-> <<" ", "B">>, businessAddress |-> <<"1">>,
      businessCity |-> <<"C">>, businessState |-> <<"c", "a">>,
      businessZip |-> <<"9">>, businessPhone |-> <<>>],
     [businessName |-> <<"Q">>, businessAddress |-> <<>>,
      businessCity |-> <<>>, businessState |-> <<>>,
      businessZip |-> <<>>, businessPhone |-> <<"5">>]}

\* the business fields as they stand when the label form is submitted
SubmittedBusiness ==
    CHOOSE b \in BusinessForms : b.businessState # <<>>

LabelForms ==
    {[labelName |-> n, labelText |-> t, additionalIngredients |-> a,
      businessName |-> SubmittedBusiness.businessName,
      businessAddress |-> SubmittedBusiness.businessAddress,
      businessCity |-> SubmittedBusiness.businessCity,
      businessState |-> SubmittedBusiness.businessState,
      businessZip |-> SubmittedBusiness.businessZip,
      businessPhone |-> SubmittedBusiness.businessPhone,
      netQuantity |-> <<"2">>, netQuantityUnit |-> <<"o", "z">>,
      allergens |-> <<<<"M","i","l","k">>>>, allergenDetails |-> <<>>,
      includeCottageDisclaimer |-> TRUE] :
        n \in {<<"x">>, <<" ", "L", "a">>},
        t \in {<<>>, <<" ", "a", " ", " ", "b">>},
        a \in {<<>>, <<"v", ",", " ", "s", " ">>}}

PresetForms ==
    {[name |-> <<" ", "E","g","g","s">>, brandName |-> <<>>,
      ingredientsText |-> <<>>],
     [name |-> <<" ">>, brandName |-> <<>>, ingredientsText |-> <<"x">>]}

\* the identifiers another caller of the API addresses a label by
ExternalIds == {DefaultOneId}

(***************************************************************************)
(* The store at the start: a preset with a store-generated identifier, a   *)
(* legacy preset that carries its own id, and a label made from the first. *)
(***************************************************************************)
InitialPresetDocs ==
    <<[_id |-> Oid("a"), id |-> <<>>, name |-> SpicesPreset.name,
       brandName |-> <<>>, ingredients |-> SpicesPreset.ingredients],
      [_id |-> Oid("c"), id |-> LegacyId, name |-> DairyPreset.name,
       brandName |-> DairyPreset.brandName,
       ingredients |-> DairyPreset.ingredients]>>

InitialLabelDocs ==
    <<[_id |-> Oid("e"), id |-> <<>>, name |-> <<"O", "l", "d">>,
       text |-> <<"S","p","i","c","e","s"," ","(","C","i","n","n","a","m","o","n",","," ","N","u","t","m","e","g",")">>,
       creationMode |-> "preset", selectedPresetIds |-> <<Oid("a")>>,
       additionalIngredientsText |-> <<>>,
       ingredients |-> SpicesPreset.ingredients,
       netQuantity |-> <<>>, netQuantityUnit |-> DefaultUnit,
       allergens |-> <<>>, allergenDetails |-> <<>>,
       includeCottageDisclaimer |-> FALSE,
       businessName |-> <<>>, businessAddress |-> <<>>, businessCity |-> <<>>,
       businessState |-> <<>>, businessZip |-> <<>>, businessPhone |-> <<>>]>>

\* constructor -> loadInitialData: the three requests of Promise.all
loadRequests ==
    <<request("GET", "labels", "load", <<>>, <<>>),
      request("GET", "presets", "load", <<>>, <<>>),
      request("GET", "business", "load", <<>>, <<>>)>>

\* the page has constructed its LabelManager: loadInitialData awaits
Init ==
    /\ op = "idle"
    /\ input = <<>>
    /\ output = <<>>
    /\ ConstructedClient
    /\ loadState = "loading"
    /\ dbLabels = InitialLabelDocs
    /\ dbPresets = InitialPresetDocs
    /\ dbBusiness = <<>>
    /\ nextOid = 0
    /\ net = loadRequests
    /\ calls = 0

(***************************************************************************)
(* Client actions.                                                         *)
(***************************************************************************)
loadResponse(path) ==
    CHOOSE i \in 1..Len(net) : net[i].from = "load" /\ net[i].path = path

notFromLoad(msg) == msg.from # "load"

\* loadInitialData: Promise.all resolves, then the finally block
LoadInitialDataResolved ==
    /\ loadState = "loading"
    /\ \A i \in 1..Len(net) :
          net[i].from = "load" => net[i].stage = "response" /\ isOk(net[i])
    /\ labels' = net[loadResponse("labels")].data
    /\ presets' = net[loadResponse("presets")].data
    /\ businessInfo' = net[loadResponse("business")].data
    /\ presetCheckboxes' =
          renderPresetCheckboxes(presets', ingredientSelectSearchResults,
                                 presetCheckboxes)
    /\ loadState' = "loaded"
    /\ net' = SelectSeq(net, notFromLoad)
    /\ UNCHANGED <<calls, fnVars, searchVars, editingLabelId, editingPresetId, lastCreatedLabelId,
                   creationMode, serverVars>>

\* loadInitialData: one request fails, the catch and the finally block.
\* Promise.all rejects at the first failure; the client drops what the
\* other two requests answer, and a GET leaves a filled store as it is
\* a loadInitialData that assigns what the requests that succeeded returned
LoadInitialDataRejectedAssignsSettled ==
    /\ loadState = "loading"
    /\ \A i \in 1..Len(net) : net[i].from = "load" => net[i].stage = "response"
    /\ \E i \in 1..Len(net) : net[i].from = "load" /\ ~isOk(net[i])
    /\ labels' = IF isOk(net[loadResponse("labels")])
                 THEN net[loadResponse("labels")].data ELSE labels
    /\ presets' = IF isOk(net[loadResponse("presets")])
                  THEN net[loadResponse("presets")].data ELSE presets
    /\ businessInfo' = IF isOk(net[loadResponse("business")])
                       THEN net[loadResponse("business")].data
                       ELSE businessInfo
    /\ presetCheckboxes' =
          renderPresetCheckboxes(presets', ingredientSelectSearchResults,
                                 presetCheckboxes)
    /\ loadState' = "failed"
    /\ net' = SelectSeq(net, notFromLoad)
    /\ UNCHANGED <<calls, fnVars, searchVars, editingLabelId, editingPresetId,
                   lastCreatedLabelId, creationMode, serverVars>>

LoadInitialDataRejected ==
    /\ loadState = "loading"
    /\ \E i \in 1..Len(net) :
          net[i].from = "load" /\ net[i].stage = "response" /\ ~isOk(net[i])
    /\ presetCheckboxes' =
          renderPresetCheckboxes(presets, ingredientSelectSearchResults,
                                 presetCheckboxes)
    /\ loadState' = "failed"
    /\ net' = SelectSeq(net, notFromLoad)
    /\ UNCHANGED <<calls, fnVars, searchVars, labels, presets, businessInfo, editingLabelId,
                   editingPresetId, lastCreatedLabelId, creationMode,
                   serverVars>>

\* the other caller of the API has its response
DiscardResponse(i) ==
    /\ net[i].stage = "response"
    /\ net[i].from = "external"
    /\ net' = removeAt(net, i)
    /\ UNCHANGED <<calls, fnVars, searchVars, clientVars, serverVars>>

\* apiRequest throws on a response that is not ok; every caller but
\* loadInitialData catches, logs and changes nothing
\* a failure handling that resets the form as a success does
RequestFailedResetsForm(i) ==
    /\ net[i].stage = "response"
    /\ net[i].from = "client"
    /\ ~isOk(net[i])
    /\ net' = removeAt(net, i)
    /\ editingLabelId' = <<>>
    /\ creationMode' = "preset"
    /\ presetCheckboxes' = resetFormBoxes(presets, presetCheckboxes)
    /\ UNCHANGED <<calls, fnVars, searchVars, labels, presets, businessInfo,
                   editingPresetId, lastCreatedLabelId, loadState, serverVars>>

RequestFailed(i) ==
    /\ net[i].stage = "response"
    /\ net[i].from = "client"
    /\ ~isOk(net[i])
    /\ net' = removeAt(net, i)
    /\ UNCHANGED <<calls, fnVars, searchVars, clientVars, serverVars>>

\* the user ticks or unticks a preset checkbox
ToggleCheckbox(k) ==
    /\ presetCheckboxes' =
          [presetCheckboxes EXCEPT ![k].checked = ~presetCheckboxes[k].checked]
    /\ UNCHANGED <<calls, fnVars, searchVars, labels, presets, businessInfo, editingLabelId,
                   editingPresetId, lastCreatedLabelId, creationMode,
                   loadState, serverVars, net>>

\* handleCreationModeChange after the user picked a mode
HandleCreationModeChange(mode) ==
    /\ creationMode # mode
    /\ creationMode' = mode
    /\ presetCheckboxes' =
          IF mode = "preset"
          THEN renderPresetCheckboxes(presets, ingredientSelectSearchResults,
                                 presetCheckboxes)
          ELSE presetCheckboxes
    /\ UNCHANGED <<calls, fnVars, searchVars, labels, presets, businessInfo, editingLabelId,
                   editingPresetId, lastCreatedLabelId, loadState,
                   serverVars, net>>

\* handleSubmit up to its await: validateForm, collectFDAData (which calls
\* saveBusinessInfo), then createLabel or updateLabel
HandleSubmit(f) ==
    /\ validateForm(creationMode, f, presets, presetCheckboxes)
    /\ (editingLabelId = <<>> /\ creationMode = "preset") =>
           Len(collectAllIngredients(presets, presetCheckboxes,
                                     f.additionalIngredients)) > 0
    /\ calls + 2 <= MaxCalls
    /\ calls' = calls + 2
    /\ LET data == labelData(creationMode, f, presets, presetCheckboxes)
           save == request("POST", "business", "client", <<>>,
                           businessPayload(businessData(f)))
       IN net' = net \o
            <<save,
              IF editingLabelId # <<>>
              THEN request("PUT", "labels", "client", editingLabelId, data)
              ELSE request("POST", "labels", "client", <<>>, data)>>
    /\ UNCHANGED <<fnVars, searchVars, clientVars, serverVars>>

\* createLabel after its await, and the rest of handleSubmit
CreateLabelDone(i) ==
    /\ isResponse(i, "POST", "labels")
    /\ isOk(net[i])
    /\ labels' = Append(labels, net[i].data)
    /\ lastCreatedLabelId' = net[i].data.id
    /\ creationMode' = "preset"
    /\ presetCheckboxes' = resetFormBoxes(presets, presetCheckboxes)
    /\ net' = removeAt(net, i)
    /\ UNCHANGED <<calls, fnVars, searchVars, presets, businessInfo, editingLabelId,
                   editingPresetId, loadState, serverVars>>

\* updateLabel after its await, and the rest of handleSubmit
UpdateLabelDone(i) ==
    /\ isResponse(i, "PUT", "labels")
    /\ isOk(net[i])
    /\ LET index == findIndex(labels, net[i].id)
       IN labels' = IF index # 0
                    THEN [labels EXCEPT ![index] = net[i].data]
                    ELSE labels
    /\ lastCreatedLabelId' = net[i].id
    /\ editingLabelId' = <<>>
    /\ creationMode' = "preset"
    /\ presetCheckboxes' = resetFormBoxes(presets, presetCheckboxes)
    /\ net' = removeAt(net, i)
    /\ UNCHANGED <<calls, fnVars, searchVars, presets, businessInfo, editingPresetId, loadState,
                   serverVars>>

\* editLabel
EditLabel(id) ==
    /\ findIndex(labels, id) # 0
    /\ LET label == labels[findIndex(labels, id)]
           mode == IF label.creationMode = "preset" THEN "preset" ELSE "manual"
           rendered == IF mode = "preset"
                       THEN renderPresetCheckboxes(presets,
                                                   ingredientSelectSearchResults,
                                                   presetCheckboxes)
                       ELSE presetCheckboxes
       IN /\ editingLabelId' = id
          /\ creationMode' = mode
          /\ presetCheckboxes' =
                setSelectedPresets(rendered,
                    IF mode = "manual" THEN <<>> ELSE label.selectedPresetIds)
    /\ UNCHANGED <<calls, fnVars, searchVars, labels, presets, businessInfo, editingPresetId,
                   lastCreatedLabelId, loadState, serverVars, net>>

\* cancelEdit
CancelEdit ==
    /\ editingLabelId # <<>>
    /\ editingLabelId' = <<>>
    /\ creationMode' = "preset"
    /\ presetCheckboxes' = resetFormBoxes(presets, presetCheckboxes)
    /\ UNCHANGED <<calls, fnVars, searchVars, labels, presets, businessInfo, editingPresetId,
                   lastCreatedLabelId, loadState, serverVars, net>>

\* handleDelete up to its await (the user confirms)
HandleDelete(id) ==
    /\ findIndex(labels, id) # 0
    /\ calls < MaxCalls
    /\ calls' = calls + 1
    /\ net' = Append(net, request("DELETE", "labels", "client", id, <<>>))
    /\ UNCHANGED <<fnVars, searchVars, clientVars, serverVars>>

\* deleteLabel after its await, and the rest of handleDelete
DeleteLabelDone(i) ==
    /\ isResponse(i, "DELETE", "labels")
    /\ isOk(net[i])
    /\ LET index == findIndex(labels, net[i].id)
       IN labels' = IF index # 0 THEN removeAt(labels, index) ELSE labels
    /\ lastCreatedLabelId' =
          IF lastCreatedLabelId = net[i].id THEN <<>> ELSE lastCreatedLabelId
    /\ IF editingLabelId = net[i].id
       THEN /\ editingLabelId' = <<>>
            /\ creationMode' = "preset"
            /\ presetCheckboxes' = resetFormBoxes(presets, presetCheckboxes)
       ELSE UNCHANGED <<editingLabelId, creationMode, presetCheckboxes>>
    /\ net' = removeAt(net, i)
    /\ UNCHANGED <<calls, fnVars, searchVars, presets, businessInfo, editingPresetId, loadState,
                   serverVars>>

\* handleSaveBusinessInfo -> saveBusinessInfo up to its await
HandleSaveBusinessInfo(f) ==
    /\ loadState # "loading"
    /\ calls < MaxCalls
    /\ calls' = calls + 1
    /\ net' = Append(net, request("POST", "business", "client", <<>>,
                                  businessPayload(businessData(f))))
    /\ UNCHANGED <<fnVars, searchVars, clientVars, serverVars>>

\* saveBusinessInfo after its await
SaveBusinessInfoDone(i) ==
    /\ isResponse(i, "POST", "business")
    /\ isOk(net[i])
    /\ businessInfo' = net[i].data
    /\ net' = removeAt(net, i)
    /\ UNCHANGED <<calls, fnVars, searchVars, labels, presets, editingLabelId, editingPresetId,
                   lastCreatedLabelId, creationMode, presetCheckboxes,
                   loadState, serverVars>>

\* validatePresetForm
validatePresetForm(pf) == trim(pf.name) # <<>>

\* handlePresetSubmit: the preset data sent to createPreset or updatePreset
presetData(pf) ==
    [name |-> trim(pf.name),
     brandName |-> trim(pf.brandName),
     ingredients |-> parseIngredients(trim(pf.ingredientsText))]

\* handlePresetSubmit up to its await
HandlePresetSubmit(pf) ==
    /\ validatePresetForm(pf)
    /\ loadState # "loading"
    /\ calls < MaxCalls
    /\ calls' = calls + 1
    /\ net' = Append(net,
          IF editingPresetId # <<>>
          THEN request("PUT", "presets", "client", editingPresetId,
                       presetData(pf))
          ELSE request("POST", "presets", "client", <<>>, presetData(pf)))
    /\ UNCHANGED <<fnVars, searchVars, clientVars, serverVars>>

\* createPreset after its await, and the rest of handlePresetSubmit
CreatePresetDone(i) ==
    /\ isResponse(i, "POST", "presets")
    /\ isOk(net[i])
    /\ presets' = Append(presets, net[i].data)
    /\ presetCheckboxes' =
          updatePresetDropdown(creationMode, presets', presetCheckboxes)
    /\ net' = removeAt(net, i)
    /\ UNCHANGED <<calls, fnVars, searchVars, labels, businessInfo, editingLabelId,
                   editingPresetId, lastCreatedLabelId, creationMode,
                   loadState, serverVars>>

\* updatePreset after its await, and the rest of handlePresetSubmit
UpdatePresetDone(i) ==
    /\ isResponse(i, "PUT", "presets")
    /\ isOk(net[i])
    /\ LET index == findIndex(presets, net[i].id)
       IN presets' = IF index # 0
                     THEN [presets EXCEPT ![index] = net[i].data]
                     ELSE presets
    /\ editingPresetId' = <<>>
    /\ presetCheckboxes' =
          updatePresetDropdown(creationMode, presets', presetCheckboxes)
    /\ net' = removeAt(net, i)
    /\ UNCHANGED <<calls, fnVars, searchVars, labels, businessInfo, editingLabelId,
                   lastCreatedLabelId, creationMode, loadState, serverVars>>

\* editPreset
EditPreset(id) ==
    /\ hasPreset(presets, id)
    /\ editingPresetId # id
    /\ editingPresetId' = id
    /\ UNCHANGED <<calls, fnVars, searchVars, labels, presets, businessInfo, editingLabelId,
                   lastCreatedLabelId, creationMode, presetCheckboxes,
                   loadState, serverVars, net>>

\* cancelPresetEdit
CancelPresetEdit ==
    /\ editingPresetId # <<>>
    /\ editingPresetId' = <<>>
    /\ UNCHANGED <<calls, fnVars, searchVars, labels, presets, businessInfo, editingLabelId,
                   lastCreatedLabelId, creationMode, presetCheckboxes,
                   loadState, serverVars, net>>

\* handlePresetDelete up to its await (the user confirms)
HandlePresetDelete(id) ==
    /\ hasPreset(presets, id)
    /\ loadState # "loading"
    /\ calls < MaxCalls
    /\ calls' = calls + 1
    /\ net' = Append(net, request("DELETE", "presets", "client", id, <<>>))
    /\ UNCHANGED <<fnVars, searchVars, clientVars, serverVars>>

\* a deletePreset that also takes the preset out of the labels that select it
DeletePresetDoneCascade(i) ==
    /\ isResponse(i, "DELETE", "presets")
    /\ isOk(net[i])
    /\ LET index == findIndex(presets, net[i].id)
           others(id) == id # net[i].id
       IN /\ presets' = IF index # 0 THEN removeAt(presets, index) ELSE presets
          /\ labels' = [k \in 1..Len(labels) |->
                           [labels[k] EXCEPT !.selectedPresetIds =
                                                 SelectSeq(@, others)]]
    /\ editingPresetId' =
          IF editingPresetId = net[i].id THEN <<>> ELSE editingPresetId
    /\ presetCheckboxes' =
          updatePresetDropdown(creationMode, presets', presetCheckboxes)
    /\ net' = removeAt(net, i)
    /\ UNCHANGED <<calls, fnVars, searchVars, businessInfo, editingLabelId,
                   lastCreatedLabelId, creationMode, loadState, serverVars>>

\* deletePreset after its await, and the rest of handlePresetDelete
DeletePresetDone(i) ==
    /\ isResponse(i, "DELETE", "presets")
    /\ isOk(net[i])
    /\ LET index == findIndex(presets, net[i].id)
       IN presets' = IF index # 0 THEN removeAt(presets, index) ELSE presets
    /\ editingPresetId' =
          IF editingPresetId = net[i].id THEN <<>> ELSE editingPresetId
    /\ presetCheckboxes' =
          updatePresetDropdown(creationMode, presets', presetCheckboxes)
    /\ net' = removeAt(net, i)
    /\ UNCHANGED <<calls, fnVars, searchVars, labels, businessInfo, editingLabelId,
                   lastCreatedLabelId, creationMode, loadState, serverVars>>

\* another caller of the API addresses a label by identifier
ExternalLabelRequest(method, id) ==
    /\ loadState # "loading"
    /\ calls < MaxCalls
    /\ calls' = calls + 1
    /\ net' = Append(net, request(method, "labels", "external", id,
                                  [name |-> <<"X", "Y">>]))
    /\ UNCHANGED <<fnVars, searchVars, clientVars, serverVars>>

Server ==
    \E i \in 1..Len(net) :
        \/ GetLabels(i)
        \/ PostLabels(i)
        \/ PutLabels(i)
        \/ DeleteLabels(i)
        \/ GetPresets(i)
        \/ PostPresets(i)
        \/ PutPresets(i)
        \/ DeletePresets(i)
        \/ GetBusiness(i)
        \/ PostBusiness(i)
        \/ ServerFails(i)

Client ==
    \/ LoadInitialDataResolved
    \/ LoadInitialDataRejected
    \/ \E k \in 1..Len(presetCheckboxes) : ToggleCheckbox(k)
    \/ \E mode \in {"manual", "preset"} : HandleCreationModeChange(mode)
    \/ loadState # "loading" /\ \E f \in LabelForms : HandleSubmit(f)
    \/ \E f \in BusinessForms \ {SubmittedBusiness} : HandleSaveBusinessInfo(f)
    \/ \E id \in {labels[k].id : k \in 1..Len(labels)} :
          EditLabel(id) \/ HandleDelete(id)
    \/ CancelEdit
    \/ \E pf \in PresetForms : HandlePresetSubmit(pf)
    \/ \E id \in {presets[k].id : k \in 1..Len(presets)} :
          EditPreset(id) \/ HandlePresetDelete(id)
    \/ CancelPresetEdit
    \/ \E i \in 1..Len(net) :
          \/ CreateLabelDone(i)
          \/ UpdateLabelDone(i)
          \/ DeleteLabelDone(i)
          \/ SaveBusinessInfoDone(i)
          \/ CreatePresetDone(i)
          \/ UpdatePresetDone(i)
          \/ DeletePresetDone(i)
          \/ RequestFailed(i)
          \/ DiscardResponse(i)

External ==
    \E method \in {"PUT", "DELETE"}, id \in ExternalIds :
        ExternalLabelRequest(method, id)

Next == Client \/ Server \/ External

Spec == Init /\ [][Next]_vars

(***************************************************************************)
(* Specification of the label list while the page loads: the form and the  *)
(* delete buttons work from the constructor on, so that a label can be     *)
(* made, edited and deleted before loadInitialData has its responses.      *)
(***************************************************************************)
NextRace ==
    \/ LoadInitialDataResolved
    \/ LoadInitialDataRejected
    \/ \E mode \in {"manual", "preset"} : HandleCreationModeChange(mode)
    \/ \E f \in LabelForms : HandleSubmit(f)
    \/ \E id \in {labels[k].id : k \in 1..Len(labels)} :
          EditLabel(id) \/ HandleDelete(id)
    \/ CancelEdit
    \/ \E i \in 1..Len(net) :
          \/ CreateLabelDone(i)
          \/ UpdateLabelDone(i)
          \/ DeleteLabelDone(i)
          \/ SaveBusinessInfoDone(i)
          \/ RequestFailed(i)
          \/ GetLabels(i)
          \/ PostLabels(i)
          \/ PutLabels(i)
          \/ DeleteLabels(i)
          \/ GetPresets(i)
          \/ GetBusiness(i)
          \/ PostBusiness(i)
          \/ ServerFails(i)

SpecRace == Init /\ [][NextRace]_vars

(***************************************************************************)
(* The two debounced searches.  A timeout that is set and not yet due is a *)
(* record of timers: its handle, the search box that set it and the value  *)
(* its callback closed over.  Handles are only compared, so setTimeout     *)
(* returns the least one that names no pending timeout and is not held in  *)
(* a field of the LabelManager.  A search request is a record of net whose *)
(* from is the method that awaits it and whose body is the query.  op      *)
(* names the handler that ran last.                                        *)
(***************************************************************************)
SearchValues == {<<" ">>, <<"S", "p">>}

IngredientSelectSearchValues == {<<" ">>, <<"S", "p">>, <<"D", "a">>}

FreeTimerIds ==
    (1..MaxTimers) \ ({t.id : t \in timers}
                   \cup {searchDebounceTimer, ingredientSelectDebounceTimer})

\* setTimeout: the handle it returns
setTimeout == CHOOSE n \in FreeTimerIds : \A m \in FreeTimerIds : n <= m

\* clearTimeout(handle)
clearTimeout(pending, handle) == {t \in pending : t.id # handle}

\* a handleSearchInput that sets its timeout without clearing the pending one
HandleSearchInputKeepsTimer(value) ==
    /\ FreeTimerIds # {}
    /\ op' = "handleSearchInput"
    /\ presetSearchQuery' = value
    /\ timers' = timers \cup
                    {[id |-> setTimeout, box |-> "presetSearch", value |-> value]}
    /\ searchDebounceTimer' = setTimeout
    /\ UNCHANGED <<input, output, clientVars, presetSearchResults,
                   ingredientSelectSearchQuery, ingredientSelectSearchResults,
                   ingredientSelectDebounceTimer, serverVars, net, calls>>

\* handleSearchInput
HandleSearchInput(value) ==
    /\ FreeTimerIds # {}
    /\ op' = "handleSearchInput"
    /\ presetSearchQuery' = value
    /\ timers' = clearTimeout(timers, searchDebounceTimer) \cup
                    {[id |-> setTimeout, box |-> "presetSearch", value |-> value]}
    /\ searchDebounceTimer' = setTimeout
    /\ UNCHANGED <<input, output, clientVars, presetSearchResults,
                   ingredientSelectSearchQuery, ingredientSelectSearchResults,
                   ingredientSelectDebounceTimer, serverVars, net, calls>>

\* the timeout of handleSearchInput is due: performPresetSearch up to its
\* await, or to its return for a blank query
SearchTimerFires(t) ==
    /\ t.box = "presetSearch"
    /\ op' = "performPresetSearch"
    /\ timers' = timers \ {t}
    /\ IF trim(t.value) = <<>>
       THEN /\ presetSearchResults' = null
            /\ UNCHANGED <<net, calls>>
       ELSE /\ calls < MaxCalls
            /\ calls' = calls + 1
            /\ net' = Append(net, request("GET", "presets/search",
                                          "performPresetSearch", <<>>,
                                          trim(t.value)))
            /\ UNCHANGED presetSearchResults
    /\ UNCHANGED <<input, output, clientVars, presetSearchQuery,
                   searchDebounceTimer, ingredientSelectSearchQuery,
                   ingredientSelectSearchResults,
                   ingredientSelectDebounceTimer, serverVars>>

\* performPresetSearch after its await: the results, [] in the catch block
PerformPresetSearchDone(i) ==
    /\ net[i].stage = "response"
    /\ net[i].from = "performPresetSearch"
    /\ op' = "performPresetSearch"
    /\ presetSearchResults' = IF isOk(net[i]) THEN net[i].data ELSE <<>>
    /\ net' = removeAt(net, i)
    /\ UNCHANGED <<input, output, clientVars, presetSearchQuery,
                   searchDebounceTimer, ingredientSelectSearchQuery,
                   ingredientSelectSearchResults,
                   ingredientSelectDebounceTimer, timers, serverVars, calls>>

\* clearPresetSearch
ClearPresetSearch ==
    /\ op' = "clearPresetSearch"
    /\ presetSearchQuery' = <<>>
    /\ presetSearchResults' = null
    /\ timers' = clearTimeout(timers, searchDebounceTimer)
    /\ UNCHANGED <<input, output, clientVars, searchDebounceTimer,
                   ingredientSelectSearchQuery, ingredientSelectSearchResults,
                   ingredientSelectDebounceTimer, serverVars, net, calls>>

\* handleIngredientSelectSearch
HandleIngredientSelectSearch(value) ==
    /\ FreeTimerIds # {}
    /\ op' = "handleIngredientSelectSearch"
    /\ ingredientSelectSearchQuery' = value
    /\ timers' = clearTimeout(timers, ingredientSelectDebounceTimer) \cup
                    {[id |-> setTimeout, box |-> "ingredientSelect",
                      value |-> value]}
    /\ ingredientSelectDebounceTimer' = setTimeout
    /\ UNCHANGED <<input, output, clientVars, presetSearchQuery,
                   presetSearchResults, searchDebounceTimer,
                   ingredientSelectSearchResults, serverVars, net, calls>>

\* the timeout of handleIngredientSelectSearch is due:
\* performIngredientSelectSearch up to its await, or to its return
IngredientSelectTimerFires(t) ==
    /\ t.box = "ingredientSelect"
    /\ op' = "performIngredientSelectSearch"
    /\ timers' = timers \ {t}
    /\ IF trim(t.value) = <<>>
       THEN /\ ingredientSelectSearchResults' = null
            /\ presetCheckboxes' =
                  renderPresetCheckboxes(presets, null, presetCheckboxes)
            /\ UNCHANGED <<net, calls>>
       ELSE /\ calls < MaxCalls
            /\ calls' = calls + 1
            /\ net' = Append(net, request("GET", "presets/search",
                                          "performIngredientSelectSearch",
                                          <<>>, trim(t.value)))
            /\ UNCHANGED <<ingredientSelectSearchResults, presetCheckboxes>>
    /\ UNCHANGED <<input, output, labels, presets, businessInfo,
                   editingLabelId, editingPresetId, lastCreatedLabelId,
                   creationMode, loadState, presetSearchQuery,
                   presetSearchResults, searchDebounceTimer,
                   ingredientSelectSearchQuery,
                   ingredientSelectDebounceTimer, serverVars>>

\* performIngredientSelectSearch after its await, with the re-rendering
PerformIngredientSelectSearchDone(i) ==
    /\ net[i].stage = "response"
    /\ net[i].from = "performIngredientSelectSearch"
    /\ op' = "performIngredientSelectSearch"
    /\ ingredientSelectSearchResults' =
          IF isOk(net[i]) THEN net[i].data ELSE <<>>
    /\ presetCheckboxes' =
          renderPresetCheckboxes(presets, ingredientSelectSearchResults',
                                 presetCheckboxes)
    /\ net' = removeAt(net, i)
    /\ UNCHANGED <<input, output, labels, presets, businessInfo,
                   editingLabelId, editingPresetId, lastCreatedLabelId,
                   creationMode, loadState, presetSearchQuery,
                   presetSearchResults, searchDebounceTimer,
                   ingredientSelectSearchQuery,
                   ingredientSelectDebounceTimer, timers, serverVars, calls>>

\* clearIngredientSelectSearch
ClearIngredientSelectSearch ==
    /\ op' = "clearIngredientSelectSearch"
    /\ ingredientSelectSearchQuery' = <<>>
    /\ ingredientSelectSearchResults' = null
    /\ timers' = clearTimeout(timers, ingredientSelectDebounceTimer)
    /\ presetCheckboxes' =
          renderPresetCheckboxes(presets, null, presetCheckboxes)
    /\ UNCHANGED <<input, output, labels, presets, businessInfo,
                   editingLabelId, editingPresetId, lastCreatedLabelId,
                   creationMode, loadState, presetSearchQuery,
                   presetSearchResults, searchDebounceTimer,
                   ingredientSelectDebounceTimer, serverVars, net, calls>>

\* app.get("/api/presets/search")
SearchPresets(i) ==
    /\ isRequest(i, "GET", "presets/search")
    /\ respond(i, 200, stripAll(searchPresets(dbPresets, net[i].body)), "none")
    /\ UNCHANGED <<calls, fnVars, searchVars, clientVars, serverVars>>

\* the page after loadInitialData, the store as it was loaded
InitSearch ==
    /\ op = "idle"
    /\ input = <<>>
    /\ output = <<>>
    /\ labels = stripAll(InitialLabelDocs)
    /\ presets = stripAll(InitialPresetDocs)
    /\ businessInfo = getEmptyBusinessInfo
    /\ editingLabelId = <<>>
    /\ editingPresetId = <<>>
    /\ lastCreatedLabelId = <<>>
    /\ creationMode = "preset"
    /\ presetCheckboxes =
          renderPresetCheckboxes(stripAll(InitialPresetDocs), null, <<>>)
    /\ loadState = "loaded"
    /\ presetSearchQuery = <<>>
    /\ presetSearchResults = null
    /\ searchDebounceTimer = 0
    /\ ingredientSelectSearchQuery = <<>>
    /\ ingredientSelectSearchResults = null
    /\ ingredientSelectDebounceTimer = 0
    /\ timers = {}
    /\ dbLabels = InitialLabelDocs
    /\ dbPresets = InitialPresetDocs
    /\ dbBusiness = <<>>
    /\ nextOid = 0
    /\ net = <<>>
    /\ calls = 0

NextSearch ==
    \/ \E value \in SearchValues : HandleSearchInput(value)
    \/ \E t \in timers : SearchTimerFires(t)
    \/ ClearPresetSearch
    \/ \E value \in IngredientSelectSearchValues :
          HandleIngredientSelectSearch(value)
    \/ \E t \in timers : IngredientSelectTimerFires(t)
    \/ ClearIngredientSelectSearch
    \/ \E k \in 1..Len(presetCheckboxes) : ToggleCheckbox(k)
    \/ \E i \in 1..Len(net) :
          \/ PerformPresetSearchDone(i)
          \/ PerformIngredientSelectSearchDone(i)
          \/ SearchPresets(i)
          \/ ServerFails(i)

SpecSearch == InitSearch /\ [][NextSearch]_vars

(***************************************************************************)
(* GET /api/presets on a store that may be empty, await by await: the      *)
(* handler finds the presets, inserts the defaults when it found none and  *)
(* finds again.  Requests of other pages are served between its awaits.    *)
(***************************************************************************)
\* col.find({}): the response when presets are found, else on to insertMany
PresetsFind(i) ==
    /\ isRequest(i, "GET", "presets")
    /\ IF Len(dbPresets) = 0
       THEN net' = [net EXCEPT ![i].stage = "insertMany"]
       ELSE respond(i, 200, stripAll(dbPresets), "none")
    /\ UNCHANGED <<calls, fnVars, searchVars, clientVars, serverVars>>

\* col.insertMany(docs)
PresetsInsertMany(i) ==
    /\ net[i].stage = "insertMany"
    /\ dbPresets' = dbPresets \o defaultPresetDocs(nextOid)
    /\ nextOid' = nextOid + 1
    /\ net' = [net EXCEPT ![i].stage = "requery"]
    /\ UNCHANGED <<calls, fnVars, searchVars, clientVars, dbLabels, dbBusiness>>

\* the second col.find({}) and res.json
PresetsRequery(i) ==
    /\ net[i].stage = "requery"
    /\ respond(i, 200, stripAll(dbPresets), "none")
    /\ UNCHANGED <<calls, fnVars, searchVars, clientVars, serverVars>>

\* another page is opened: its GET /api/presets
ExternalPresetsRequest ==
    /\ calls < MaxCalls
    /\ calls' = calls + 1
    /\ net' = Append(net, request("GET", "presets", "external", <<>>, <<>>))
    /\ UNCHANGED <<fnVars, searchVars, clientVars, serverVars>>

\* the page is opened on a store that holds nothing yet
InitSeed ==
    /\ op = "idle"
    /\ input = <<>>
    /\ output = <<>>
    /\ ConstructedClient
    /\ loadState = "loading"
    /\ dbLabels = <<>>
    /\ dbPresets = <<>>
    /\ dbBusiness = <<>>
    /\ nextOid = 0
    /\ net = loadRequests
    /\ calls = 0

NextSeed ==
    \/ LoadInitialDataResolved
    \/ LoadInitialDataRejected
    \/ ExternalPresetsRequest
    \/ \E i \in 1..Len(net) :
          \/ GetLabels(i)
          \/ GetBusiness(i)
          \/ PresetsFind(i)
          \/ PresetsInsertMany(i)
          \/ PresetsRequery(i)
          \/ ServerFails(i)
          \/ DiscardResponse(i)

SpecSeed == InitSeed /\ [][NextSeed]_vars

(***************************************************************************)
(* Claims about the labels the form creates and updates.                   *)
(***************************************************************************)
\* the checkboxes that select exactly these presets, in this order
CheckedBoxes(ids) ==
    [k \in 1..Len(ids) |-> [value |-> ids[k], checked |-> TRUE]]

\* the mode invariant of a label record, the aggregator applied to the
\* selection and the additional text stored in the record itself
StoredModeInvariant(rec, catalogue) ==
    /\ rec.creationMode \in {"preset", "manual"}
    /\ rec.creationMode = "preset" =>
          /\ rec.text =
                buildFormattedLabelText(catalogue,
                    CheckedBoxes(rec.selectedPresetIds),
                    rec.additionalIngredientsText)
          /\ rec.ingredients =
                collectAllIngredients(catalogue,
                    CheckedBoxes(rec.selectedPresetIds),
                    rec.additionalIngredientsText)
    /\ rec.creationMode = "manual" => rec.selectedPresetIds = <<>>

ContentFields ==
    {"text", "creationMode", "selectedPresetIds", "additionalIngredientsText",
     "ingredients"}

BusinessFields ==
    {"businessName", "businessAddress", "businessCity", "businessState",
     "businessZip", "businessPhone"}

\* the label the client holds after CreateLabelDone(i) or UpdateLabelDone(i)
\* agrees with what handleSubmit sent in these fields
HeldLabelAgrees(i, fields) ==
    /\ CreateLabelDone(i) =>
          \A k \in fields : labels'[Len(labels')][k] = net[i].body[k]
    /\ UpdateLabelDone(i) =>
          \A j \in 1..Len(labels') :
              labels'[j].id = net[i].id =>
                  \A k \in fields : labels'[j][k] = net[i].body[k]

\* C6: every label handleSubmit creates or updates satisfies the mode
\* invariant.  What handleSubmit sends satisfies it for the presets of the
\* moment: in preset mode text and ingredients are what the aggregator
\* yields for the selectedPresetIds and the additionalIngredientsText of the
\* same record, in manual mode selectedPresetIds is empty and text is the
\* text the user entered; and the label the client then holds has the
\* content that was sent.
C6_ModeInvariant ==
    [][/\ \A f \in LabelForms :
              (calls' # calls /\ HandleSubmit(f)) =>
                  LET body == net'[Len(net')].body
                  IN /\ StoredModeInvariant(body, presets)
                     /\ body.creationMode = "manual" =>
                            body.text = trim(f.labelText)
       /\ \A i \in 1..Len(net) : HeldLabelAgrees(i, ContentFields)]_vars

\* a label made or updated by handleSubmit in preset mode, from a selection
\* and additional ingredients, is held by the client
C6_Witness ==
    \E k \in 1..Len(labels) :
        /\ labels[k].id = lastCreatedLabelId
        /\ labels[k].creationMode = "preset"
        /\ labels[k].selectedPresetIds # <<>>
        /\ labels[k].additionalIngredientsText # <<>>
        /\ StoredModeInvariant(labels[k], presets)

\* C7: after a label is created or edited through handleSubmit, the label
\* held in labels carries the six business fields that were submitted.
C7_BusinessCopied ==
    [][\A i \in 1..Len(net) : HeldLabelAgrees(i, BusinessFields)]_vars

\* the identifier is one the store generates: 24 lower-case hex characters
IsStoreGenerated(id) ==
    /\ Len(id) = OidHexLen
    /\ \A k \in 1..Len(id) : id[k] \in LowerHexDigits

\* C9: a PUT or DELETE on a preset or a label whose identifier is not a
\* store-generated id is answered with a match or with "not found"; only a
\* failure of the store itself, never the identifier, makes it an error.
C9_ResolutionNeverFails ==
    \A i \in 1..Len(net) :
        ( /\ net[i].stage = "response"
          /\ net[i].method \in {"PUT", "DELETE"}
          /\ net[i].path \in {"labels", "presets"}
          /\ ~IsStoreGenerated(net[i].id) )
        => \/ net[i].status \in {200, 404}
           \/ net[i].err = "MongoError"

(***************************************************************************)
(* Reference notions for the claims about the sections of the rich markup  *)
(* and of the plain text.                                                  *)
(***************************************************************************)
\* the sections of a label in their documented order
SectionOrder ==
    <<"name", "ingredients", "allergens", "business", "net", "cottage">>

SectionRank(kind) == CHOOSE r \in 1..Len(SectionOrder) : SectionOrder[r] = kind

\* the element that holds a section in the rich markup
SectionTag(kind) ==
    CASE kind = "name" -> "<div:name>"
      [] kind = "ingredients" -> "<div:ingredients>"
      [] kind = "allergens" -> "<div:allergens>"
      [] kind = "business" -> "<div:business>"
      [] kind = "net" -> "<div:net>"
      [] kind = "cottage" -> "<div:cottage>"

IsSectionTag(token) == \E r \in 1..Len(SectionOrder) : token = SectionTag(SectionOrder[r])

\* the sections of a rich markup, in the order of their elements
MarkupSections(markup) ==
    LET tags == SelectSeq(markup, IsSectionTag)
    IN [k \in 1..Len(tags) |->
           CHOOSE kind \in {SectionOrder[r] : r \in 1..Len(SectionOrder)} :
               SectionTag(kind) = tags[k]]

\* the lines of a plain text
RECURSIVE PlainLines(_)
PlainLines(text) ==
    LET k == indexOf(text, "\n")
    IN IF k = -1 THEN <<text>>
       ELSE <<SubSeq(text, 1, k)>> \o PlainLines(SubSeq(text, k + 2, Len(text)))

\* the section a line of the plain text of this label is: a line is known
\* by the literal it starts with, the name is the first line of a label
\* that has a name, and what remains is the business line
LineSection(label, lines, k) ==
    IF lines[k] = CottageSentence THEN "cottage"
    ELSE IF IsPrefix(NetWtLabel, lines[k]) THEN "net"
    ELSE IF IsPrefix(ContainsLabel, lines[k]) THEN "allergens"
    ELSE IF IsPrefix(IngredientsLabel \o <<" ">>, lines[k]) THEN "ingredients"
    ELSE IF k = 1 /\ label.name # <<>> THEN "name"
    ELSE "business"

\* the sections of a plain text, line by line; the empty text has none
PlainSections(label, text) ==
    IF text = <<>> THEN <<>>
    ELSE LET lines == PlainLines(text)
         IN [k \in 1..Len(lines) |-> LineSection(label, lines, k)]

\* the content of the element of this section in the markup, its tags left
\* out: the tokens between the opening tag and the next </div>
MarkupSectionText(markup, kind) ==
    LET open == CHOOSE i \in 1..Len(markup) : markup[i] = SectionTag(kind)
        close == CHOOSE j \in (open + 1)..Len(markup) :
                     /\ markup[j] = "</div>"
                     /\ \A m \in (open + 1)..(j - 1) : markup[m] # "</div>"
    IN SubSeq(markup, open + 1, close - 1)

\* the line of this section in the plain text
PlainSectionText(label, text, kind) ==
    LET lines == PlainLines(text)
    IN lines[CHOOSE k \in 1..Len(lines) : LineSection(label, lines, k) = kind]

HasSection(sections, kind) == \E k \in 1..Len(sections) : sections[k] = kind

InSectionOrder(sections) ==
    \A j, k \in 1..Len(sections) :
        j < k => SectionRank(sections[j]) < SectionRank(sections[k])

C12_AllergenLine ==
    (op = "copyRichText" /\ Len(input.allergens) > 0) =>
        LET expected ==
                ContainsLabel \o toUpperCase(join(input.allergens, CommaSpace))
        IN /\ PlainSectionText(input, output.plainText, "allergens") = expected
           /\ MarkupSectionText(output.html, "allergens") = escapeHtml(expected)

\* the business line as documented: the name, a space and the street,
\* then ", " and the non-empty ones of city, state and zip joined by ", "
BusinessLine(label) ==
    LET place == SelectSeq(<<label.businessCity, label.businessState,
                             label.businessZip>>, IsNonEmpty)
    IN label.businessName
           \o (IF label.businessAddress = <<>> THEN <<>>
               ELSE <<" ">> \o label.businessAddress)
           \o (IF place = <<>> THEN <<>>
               ELSE CommaSpace \o join(place, CommaSpace))

\* C13: in the rich markup and in the plain text the business line is the
\* name followed by the street with no punctuation between them, then ", "
\* and the non-empty ones of city, state and zip joined by ", "; there is no
\* business line when the label has no business name.
C13_BusinessLine ==
    op = "copyRichText" =>
        LET rich == MarkupSections(output.html)
            plain == PlainSections(input, output.plainText)
        IN IF input.businessName = <<>>
           THEN ~HasSection(rich, "business") /\ ~HasSection(plain, "business")
           ELSE /\ HasSection(rich, "business")
                /\ HasSection(plain, "business")
                /\ MarkupSectionText(output.html, "business")
                       = escapeHtml(BusinessLine(input))
                /\ PlainSectionText(input, output.plainText, "business")
                       = BusinessLine(input)

\* C14: the sections of the rich markup and the lines of the plain text
\* come in the order name, ingredients, allergens, business, net quantity,
\* cottage disclaimer, whichever of them the label has.
C14_FixedOrder ==
    /\ op = "buildFormattedLabelHtml" => InSectionOrder(MarkupSections(output))
    /\ op = "buildFullLabelText" => InSectionOrder(PlainSections(input, output))
    /\ op = "copyRichText" =>
          /\ InSectionOrder(MarkupSections(output.html))
          /\ InSectionOrder(PlainSections(input, output.plainText))

\* a label with all six sections was rendered as plain text
C14_Witness ==
    /\ op = "buildFullLabelText"
    /\ PlainSections(input, output) = SectionOrder

IsBlank(text) == \A i \in 1..Len(text) : IsSpace(text[i])

Occurs(p, s) ==
    \E i \in 0..(Len(s) - Len(p)) : SubSeq(s, i + 1, i + Len(p)) = p

\* what the label lacks has no section
OmitsWhatIsAbsent(label, sections) ==
    /\ (IsBlank(label.text) /\ IsBlank(label.ingredientsText))
           => ~HasSection(sections, "ingredients")
    /\ label.name = <<>> => ~HasSection(sections, "name")
    /\ label.allergens = <<>> => ~HasSection(sections, "allergens")
    /\ label.businessName = <<>> => ~HasSection(sections, "business")
    /\ label.netQuantity = <<>> => ~HasSection(sections, "net")
    /\ ~label.includeCottageDisclaimer => ~HasSection(sections, "cottage")

\* C15: every section is optional: a label, also one with fields missing,
\* is rendered without the ingredients line when it has no ingredient
\* expression, without the net-quantity line when it has no quantity,
\* without the business line when it has no business name, without the
\* disclaimer unless the flag is set, and a label with no allergens has no
\* allergen line in the rich markup, in the plain text or in the text that
\* is stored.
C15_SectionsOptional ==
    /\ op = "buildFormattedLabelHtml" =>
          OmitsWhatIsAbsent(input, MarkupSections(output))
    /\ op = "buildFullLabelText" =>
          OmitsWhatIsAbsent(input, PlainSections(input, output))
    /\ (op = "stripBracketsFromIngredients" /\ input.allergens = <<>>) =>
          /\ ~Occurs(ContainsLabel, output)
          /\ ~Occurs(<<"\n">>, output)

\* a label with a name only (a blank text, allergen details without
\* allergens, an address without a business name) became the one line of
\* its name
C15_Witness ==
    /\ op = "buildFullLabelText"
    /\ input.name # <<>>
    /\ input.text = <<" ">>
    /\ input.allergens = <<>> /\ input.allergenDetails # <<>>
    /\ input.businessName = <<>> /\ input.businessAddress # <<>>
    /\ input.netQuantity = <<>>
    /\ ~input.includeCottageDisclaimer
    /\ output = input.name

\* an item without whitespace at either end
IsTrimmed(item) ==
    item # <<>> => ~IsSpace(item[1]) /\ ~IsSpace(item[Len(item)])

\* C16: every item that splitTopLevel returns is trimmed of surrounding
\* whitespace and none is empty: what is empty after trimming, as between
\* consecutive depth-zero commas or before a leading one, is dropped.
C16_TrimmedNonEmptyItems ==
    op = "splitTopLevel" =>
        \A k \in 1..Len(output) : output[k] # <<>> /\ IsTrimmed(output[k])

\* the parentheses of text do not pair up: a ")" without its "(" or a "("
\* never closed
IsUnbalanced(text) ==
    \/ DepthAt(text, Len(text)) # 0
    \/ \E i \in 1..Len(text) : DepthAt(text, i) < 0

\* the text after the last depth-zero comma, trimmed
LastSegment(text) ==
    LET commas == TopLevelCommas(text)
        last == IF commas = {} THEN 0
                ELSE CHOOSE i \in commas : \A j \in commas : j <= i
    IN trim(SubSeq(text, last + 1, Len(text)))

\* C17: splitTopLevel returns a list for every expression, also one with
\* an unclosed "(" or a stray ")": the depth it ends with is the number of
\* "(" less the number of ")", of either sign, and the item still open at
\* the end of the string is returned as it stands, everything after the
\* last depth-zero comma.
C17_TotalOnUnbalanced ==
    (op = "splitTopLevel" /\ IsUnbalanced(input)) =>
        /\ splitLoop(input, 1, <<>>, <<>>, 0).parenDepth
               = DepthAt(input, Len(input))
        /\ Len(output) <= Cardinality(TopLevelCommas(input)) + 1
        /\ LastSegment(input) # <<>> =>
               /\ output # <<>>
               /\ output[Len(output)] = LastSegment(input)

\* an expression whose second item has a group that is never closed, with
\* a comma inside it, was split in two
C17_Witness ==
    /\ op = "splitTopLevel"
    /\ DepthAt(input, Len(input)) > 0
    /\ TopLevelCommas(input) # {}
    /\ \E i \in 1..Len(input) : input[i] = "," /\ DepthAt(input, i) > 0
    /\ Len(output) = 2

\* every ")" of text closes a "(" before it and every "(" is closed
IsBalanced(text) == ~IsUnbalanced(text)

\* C18: for an expression with balanced parentheses, joining the items of
\* splitTopLevel with ", " and splitting the result gives the same items.
C18_RoundTrip ==
    (op = "splitTopLevel" /\ IsBalanced(input)) =>
        splitTopLevel(join(output, CommaSpace)) = output

\* a request of the form to create or update a label
IsLabelSubmission(msg) ==
    /\ msg.from = "client"
    /\ msg.path = "labels"
    /\ msg.method \in {"POST", "PUT"}

\* additional texts that hold no token
TokenlessTexts == {<<>>, <<" ">>, <<",">>, <<" ", ",", " ", ",">>}

\* C19: with no preset selected and an additional text without tokens the
\* aggregator yields the empty list and validateForm rejects the form in
\* preset mode, so that no request of handleSubmit to create or update a
\* label in preset mode carries an empty list of ingredients.
C19_EmptyAggregationRejected ==
    /\ \A f \in LabelForms, a \in TokenlessTexts :
           LET g == [f EXCEPT !.additionalIngredients = a]
           IN getSelectedPresets(presetCheckboxes) = <<>>
                  => /\ collectAllIngredients(presets, presetCheckboxes, a) = <<>>
                     /\ ~validateForm("preset", g, presets, presetCheckboxes)
    /\ \A i \in 1..Len(net) :
           (IsLabelSubmission(net[i]) /\ net[i].body.creationMode = "preset")
               => net[i].body.ingredients # <<>>

\* a label is being edited in preset mode with no preset selected, where a
\* form without additional ingredients is rejected, and nothing was sent
C19_Witness ==
    /\ editingLabelId # <<>>
    /\ creationMode = "preset"
    /\ loadState # "loading"
    /\ presetCheckboxes # <<>>
    /\ getSelectedPresets(presetCheckboxes) = <<>>
    /\ \E f \in LabelForms :
           /\ f.additionalIngredients = <<>>
           /\ Len(trim(f.labelName)) >= 2
           /\ ~validateForm(creationMode, f, presets, presetCheckboxes)
    /\ \A i \in 1..Len(net) : ~IsLabelSubmission(net[i])

\* the ingredient expression of the form: what the aggregator builds from
\* the selection and the additional text, or the text entered by hand
CanonicalExpression(f) ==
    IF creationMode = "preset"
    THEN buildFormattedLabelText(presets, presetCheckboxes,
                                 f.additionalIngredients)
    ELSE f.labelText

\* C20 as stated: the text that handleSubmit sends to be stored is the
\* ingredient expression with every run of whitespace collapsed to one
\* space and the ends trimmed.
C20_Original ==
    [][\A f \in LabelForms :
           (calls' # calls /\ HandleSubmit(f)) =>
               net'[Len(net')].body.text
                   = stripBracketsFromIngredients(CanonicalExpression(f))]_vars

\* C20: the text that handleSubmit sends to be stored is the expression of
\* the aggregator as it is in preset mode and the entered text with its
\* ends trimmed in manual mode, whitespace runs inside it kept; the
\* whitespace-normalized text is computed from it when the label is
\* rendered and equals the normalized ingredient expression.
C20_PersistedText ==
    [][\A f \in LabelForms :
           (calls' # calls /\ HandleSubmit(f)) =>
               LET text == net'[Len(net')].body.text
               IN /\ creationMode = "preset" => text = CanonicalExpression(f)
                  /\ creationMode = "manual" =>
                         /\ text # <<>>
                         /\ IsTrimmed(text)
                         /\ \E i \in 0..Len(f.labelText) :
                                SubSeq(f.labelText, i + 1, i + Len(text)) = text
                  /\ stripBracketsFromIngredients(text)
                         = stripBracketsFromIngredients(CanonicalExpression(f))]_vars

\* a label made by hand is held by the client with the two spaces that were
\* typed inside its text
C20_Witness ==
    \E k \in 1..Len(labels) :
        /\ labels[k].id = lastCreatedLabelId
        /\ labels[k].creationMode = "manual"
        /\ labels[k].text = <<"a", " ", " ", "b">>

(***************************************************************************)
(* Claims about what a step leaves alone.                                  *)
(***************************************************************************)
\* the labels the client holds and the labels of the store stay as they are
LabelsUntouched == labels' = labels /\ dbLabels' = dbLabels

\* C22: existing labels are snapshots: no step of saving the business
\* information, of updating a preset or of deleting a preset (the handler of
\* the form, the handler of the server, the method of the client after its
\* await) changes a field of a label the client holds or the store keeps;
\* a label keeps the identifier of a preset that was deleted.
C22_LabelsAreSnapshots ==
    [][/\ (calls' # calls
             /\ \/ \E f \in BusinessForms : HandleSaveBusinessInfo(f)
                \/ \E pf \in PresetForms : HandlePresetSubmit(pf)
                \/ \E k \in 1..Len(presets) : HandlePresetDelete(presets[k].id))
          => LabelsUntouched
       /\ \A i \in 1..Len(net) :
             (/\ net[i].path \in {"business", "presets"}
              /\ net[i].method \in {"POST", "PUT", "DELETE"}
              /\ \/ PostBusiness(i) \/ SaveBusinessInfoDone(i)
                 \/ PutPresets(i) \/ UpdatePresetDone(i)
                 \/ DeletePresets(i) \/ DeletePresetDone(i))
             => LabelsUntouched]_vars

\* the preset that the label "Old" selects was deleted, in the store and in
\* the client, and the label still selects it, in the store and in the client
C22_Witness ==
    /\ loadState = "loaded"
    /\ \A k \in 1..Len(dbPresets) : dbPresets[k]._id # Oid("a")
    /\ ~hasPreset(presets, Oid("a"))
    /\ \E k \in 1..Len(dbLabels) : dbLabels[k].selectedPresetIds = <<Oid("a")>>
    /\ \E k \in 1..Len(labels) : labels[k].selectedPresetIds = <<Oid("a")>>

\* C23: in every state of the client lastCreatedLabelId is null or the id
\* of a label that labels holds, whatever the order in which the responses
\* of label create, update, delete and of the initial load arrive.
C23_LastCreatedIsHeld ==
    lastCreatedLabelId = <<>> \/ findIndex(labels, lastCreatedLabelId) # 0

\* a search box is settled: none of its timeouts is pending and none of its
\* requests is on its way
Settled(box, method) ==
    /\ \A t \in timers : t.box # box
    /\ \A i \in 1..Len(net) : net[i].from # method

\* what the results of a settled search for this query are: null for a blank
\* query, else what the store answers, [] when the request failed
ReflectsQuery(results, query) ==
    IF trim(query) = <<>> THEN results = null
    ELSE \/ results = stripAll(searchPresets(dbPresets, trim(query)))
         \/ results = <<>>

\* C24: once every debounce timer has fired or been cancelled and every
\* search request has completed, presetSearchResults and
\* ingredientSelectSearchResults reflect the most recent query: null when it
\* is empty or the search was cleared, else the result of the request for
\* that query, in whatever order the responses arrived.
C24_ResultsReflectLatestQuery ==
    /\ Settled("presetSearch", "performPresetSearch")
          => ReflectsQuery(presetSearchResults, presetSearchQuery)
    /\ Settled("ingredientSelect", "performIngredientSelectSearch")
          => ReflectsQuery(ingredientSelectSearchResults,
                           ingredientSelectSearchQuery)

\* the ids of boxes that are checked, as a set
Selected(boxes) ==
    {getSelectedPresets(boxes)[j] : j \in 1..Len(getSelectedPresets(boxes))}

\* C26: searching in the ingredient-selection list does not change which
\* presets are selected: a preset checked before renderPresetCheckboxes
\* re-renders for the search results, or for the cleared search, is
\* selected after it, even if the search results do not hold it.
C26_SearchKeepsSelection ==
    [][(/\ op' \in {"performIngredientSelectSearch",
                    "clearIngredientSelectSearch"}
        /\ \/ ClearIngredientSelectSearch
           \/ \E t \in timers : IngredientSelectTimerFires(t)
           \/ \E i \in 1..Len(net) : PerformIngredientSelectSearchDone(i))
          => Selected(presetCheckboxes) \subseteq Selected(presetCheckboxes')]_vars

\* the pending timeout of a search box is the one its handle names and is
\* for the value typed last
OnlyLatestPending(box, handle, query) ==
    \A t \in timers : t.box = box => t.id = handle /\ t.value = query

\* C27: handleSearchInput and handleIngredientSelectSearch cancel the pending
\* debounce timer, so at most one timer is pending per search box and it is
\* for the last value typed, a search is started for nothing but the last 
\* value typed, and after clearPresetSearch or clearIngredientSelectSearch 
\* no timer of that box is pending.
C27_OneTimerPerBox ==
    /\ [](/\ OnlyLatestPending("presetSearch", searchDebounceTimer,
                               presetSearchQuery)
          /\ OnlyLatestPending("ingredientSelect",
                               ingredientSelectDebounceTimer,
                               ingredientSelectSearchQuery)
          /\ op = "clearPresetSearch"
                => \A t \in timers : t.box # "presetSearch"
          /\ op = "clearIngredientSelectSearch"
                => \A t \in timers : t.box # "ingredientSelect")
    /\ [][Len(net') > Len(net)
             => LET sent == net'[Len(net')]
                IN /\ sent.from = "performPresetSearch"
                      => sent.body = trim(presetSearchQuery)
                   /\ sent.from = "performIngredientSelectSearch"
                      => sent.body = trim(ingredientSelectSearchQuery)]_vars

\* C27 witness: a second input in the search box while the timeout of the
\* first was pending; the one timeout pending is the second
C27_Witness ==
    /\ op = "handleSearchInput"
    /\ calls = 0
    /\ ingredientSelectDebounceTimer = 0
    /\ searchDebounceTimer = 2
    /\ presetSearchQuery = <<"S", "p">>
    /\ timers = {[id |-> 2, box |-> "presetSearch", value |-> <<"S", "p">>]}

\* how many presets of the store have the name of this default preset
Seeded(d) ==
    Cardinality({k \in 1..Len(dbPresets) :
                    dbPresets[k].name = defaultPresets[d].name})

\* C25: whatever the interleaving of concurrent GET /api/presets on an empty
\* collection, the default presets are inserted at most once.
C25_DefaultsSeededOnce ==
    \A d \in 1..Len(defaultPresets) : Seeded(d) <= 1

\* the response of a label request of the page that reports a failure
IsFailedLabelResponse(msg) ==
    /\ msg.stage = "response"
    /\ msg.from = "client"
    /\ msg.path = "labels"
    /\ ~isOk(msg)

\* C28: when the request of createLabel, updateLabel or deleteLabel fails,
\* the step that handles the failure leaves labels and lastCreatedLabelId
\* as they were, and handleSubmit leaves editingLabelId and the form (the
\* creation mode, the checkboxes) as they were.
C28_FailureChangesNothing ==
    [][\A i \in 1..Len(net) :
          (IsFailedLabelResponse(net[i]) /\ net' = removeAt(net, i))
             => /\ labels' = labels
                /\ lastCreatedLabelId' = lastCreatedLabelId
                /\ editingLabelId' = editingLabelId
                /\ creationMode' = creationMode
                /\ presetCheckboxes' = presetCheckboxes]_vars

\* C28 witness: the update of the label that is being edited has failed
C28_Witness ==
    \E i \in 1..Len(net) :
        /\ IsFailedLabelResponse(net[i])
        /\ net[i].method = "PUT"
        /\ editingLabelId # <<>>
        /\ net[i].id = editingLabelId

\* one of the three requests of loadInitialData has failed
LoadRequestFailed ==
    \E i \in 1..Len(net) :
        net[i].from = "load" /\ net[i].stage = "response" /\ ~isOk(net[i])

\* C29: loadInitialData is all-or-nothing: when one of its three requests
\* has failed, the step that ends the load assigns none of labels, presets
\* and businessInfo, and its finally block runs all the same (the page is
\* rendered and the load is over).
C29_LoadAllOrNothing ==
    [][(loadState = "loading" /\ loadState' # "loading" /\ LoadRequestFailed)
          => /\ labels' = labels
             /\ presets' = presets
             /\ businessInfo' = businessInfo
             /\ loadState' = "failed"
             /\ presetCheckboxes' =
                   renderPresetCheckboxes(presets,
                                          ingredientSelectSearchResults,
                                          presetCheckboxes)]_vars

\* C29 witness: the load has failed although the store answered two of the
\* three requests; the page holds no label and no preset of the store
C29_Witness ==
    /\ loadState = "failed"
    /\ labels = <<>>
    /\ presets = <<>>
    /\ businessInfo = getEmptyBusinessInfo
    /\ Len(dbLabels) > 0
    /\ Len(dbPresets) > 0

\* C30: every preset id the API returns, the id stripMongoId gives a
\* document, resolves through getPresetQuery to a lookup that selects that
\* same document, for documents with a store-generated id only and for
\* legacy documents with an id attribute of their own alike.
C30_ListedIdResolves ==
    \A k \in 1..Len(dbPresets), acceptsRaw \in BOOLEAN :
        findFirst(dbPresets,
                  getPresetQuery(stripMongoId(dbPresets[k]).id, acceptsRaw)) = k

\* C30 witness: the store holds a legacy preset next to one it created
C30_Witness ==
    /\ \E j \in 1..Len(dbPresets) : dbPresets[j].id = LegacyId
    /\ \E k \in 1..Len(dbPresets) :
          /\ dbPresets[k].id = <<>>
          /\ dbPresets[k]._id \notin {Oid("a"), Oid("c")}

====
